---- MODULE Spec2Model ----
(***************************************************************************)
(* The cache package of mcp-volume-ranking: MockRedis / L1Cache (the first *)
(* consulted tier, JSON text with a per-key expiry), L2Cache (the bounded  *)
(* LRU memory tier), HierarchicalCache on top of both, and the key policy  *)
(* of CacheKeyGenerator.                                                   *)
(*                                                                         *)
(* Strings that the code inspects character by character (cache keys, glob *)
(* patterns, parameter names) are sequences of one-character strings.      *)
(* Optional[int] is a set with at most one element: {} is None.            *)
(* Time is datetime.now() in whole seconds.                                *)
(***************************************************************************)
EXTENDS Integers, Sequences, FiniteSets, TLC

VARIABLES
    now,          \* datetime.now()
    l1_data,      \* MockRedis._data   : key -> JSON text
    l1_expiry,    \* MockRedis._expiry : key -> datetime
    l2_cache,     \* L2Cache._cache    : OrderedDict, oldest first
    stats,        \* HierarchicalCache._stats
    ret,          \* the last call and what it returned
    hist,         \* history of the calls made (what the claims refer back to)
    inp,          \* inputs of the key-policy functions
    deco,         \* a function decorated with cache_result: its settings and calls
    co,           \* callers whose calls are in flight at the same time
    breaker,      \* a CircuitBreaker (async_optimization) and the calls made through it
    retry,        \* a CircuitBreakerRetry (error_handling) and the calls made through it
    batch,        \* a BatchProcessor, its timer task and the futures it handed out
    l2aux,        \* L2Cache._cleanup_task, and the order in which its keys were last used
    promo,        \* get, set and delete of HierarchicalCache whose tier writes interleave
    prio,         \* a PriorityTaskScheduler and the tasks given to it
    dep           \* a DependencyScheduler and the tasks given to it

vars == <<now, l1_data, l1_expiry, l2_cache, stats, ret, hist, inp, deco, co,
          breaker, retry, batch, l2aux, promo, prio, dep>>

----------------------------------------------------------------------------
(* Bounds of the model *)

\* calls (and clock ticks) in one behaviour
MaxOps == 3
\* capacity of the L2Cache under test (L2Cache(max_size=...))
max_size == 2

\* parameters of the breakers under test
failure_threshold == 2
recovery_timeout == 2
half_open_requests == 2
\* BatchProcessor(batch_size=...)
batch_size == 2
\* calls made through a breaker, and the last time the clock shows
BreakerMaxCalls == 5
MaxNow == 4
\* calls on the L2Cache with a cleanup task, and the last time its clock shows
MaxL2Ops == 4
MaxL2Time == 60
\* calls on the HierarchicalCache with suspended writes, and the last time its clock shows
MaxPromoCalls == 4
MaxPromoTime == 3
\* PriorityTaskScheduler(max_concurrent=...), the tasks given to it, and the last
\* value its time.time() shows
max_concurrent == 2
MaxTasks == 3
MaxPrioClock == 1
\* the tasks given to a DependencyScheduler and the scheduler loops it creates
MaxDepTasks == 3
MaxLoops == 2

(* Program constants *)
cache_l1_ttl_seconds == 60
cache_l2_ttl_seconds == 300
promotion_ttl == 300

----------------------------------------------------------------------------
(* Python values held in the cache *)

None == [type |-> "NoneType", cls |-> "", v |-> ""]
Str(s) == [type |-> "str", cls |-> "", v |-> s]
\* an instance of a Pydantic model class (it has model_dump)
Model(c, d) == [type |-> "model", cls |-> c, v |-> d]
\* a plain dict
Dict(d) == [type |-> "dict", cls |-> "", v |-> d]

Values == {Str("old"), Model("VolumeRankingResponse", "KOSPI"), None}

hasattr_model_dump(value) == value.type = "model"

\* json.dumps in L1Cache.set: a model is wrapped with its class name
json_dumps(value) ==
    IF hasattr_model_dump(value)
    THEN [j |-> "object", tag |-> value.cls, data |-> value.v]
    ELSE IF value.type = "NoneType" THEN [j |-> "null", tag |-> "", data |-> ""]
    ELSE IF value.type = "dict" THEN [j |-> "object", tag |-> "", data |-> value.v]
    ELSE [j |-> "string", tag |-> "", data |-> value.v]

\* json.loads and the restoring of the model in L1Cache.get
json_loads(text) ==
    IF text.j = "object" /\ text.tag # ""
    THEN Model(text.tag, text.data)
    ELSE IF text.j = "object" THEN Dict(text.data)
    ELSE IF text.j = "null" THEN None
    ELSE Str(text.data)

----------------------------------------------------------------------------
(* Keys and glob patterns *)

Keys == { <<"a", "1">>, <<"a", "2">>, <<"b", "1">> }
Patterns == { <<"a", "*">>, <<"*">>, <<"?", "1">>, <<"b", "1">>, <<>> }

RECURSIVE fnmatch(_, _)
fnmatch(name, pat) ==
    IF pat = <<>> THEN name = <<>>
    ELSE IF Head(pat) = "*"
         THEN fnmatch(name, Tail(pat))
              \/ (name # <<>> /\ fnmatch(Tail(name), pat))
         ELSE /\ name # <<>>
              /\ (Head(pat) = "?" \/ Head(pat) = Head(name))
              /\ fnmatch(Tail(name), Tail(pat))

\* a dict without one key
Remove(d, key) == [k \in (DOMAIN d) \ {key} |-> d[k]]
\* a dict with one key set
Put(d, key, x) == [k \in (DOMAIN d) \cup {key} |-> IF k = key THEN x ELSE d[k]]

----------------------------------------------------------------------------
(* MockRedis: the in-process store behind L1Cache.  Each operator takes    *)
(* the store r = [data, expiry] and gives the store afterwards and the     *)
(* returned value.                                                         *)

MockRedis_setex(r, key, ttl, text, t) ==
    [r |-> [data |-> Put(r.data, key, text), expiry |-> Put(r.expiry, key, t + ttl)],
     res |-> TRUE]

MockRedis_get(r, key, t) ==
    IF key \in DOMAIN r.expiry /\ t > r.expiry[key]
    THEN [r |-> [data |-> Remove(r.data, key), expiry |-> Remove(r.expiry, key)],
          hit |-> FALSE, text |-> json_dumps(None)]
    ELSE IF key \in DOMAIN r.data
         THEN [r |-> r, hit |-> TRUE, text |-> r.data[key]]
         ELSE [r |-> r, hit |-> FALSE, text |-> json_dumps(None)]

\* delete(*keys): the number of the keys that were stored
MockRedis_delete(r, keys) ==
    [r |-> [data |-> [k \in (DOMAIN r.data) \ keys |-> r.data[k]],
            expiry |-> [k \in (DOMAIN r.expiry) \ (keys \cap DOMAIN r.data) |-> r.expiry[k]]],
     res |-> Cardinality(keys \cap DOMAIN r.data)]

MockRedis_keys(r, pattern) == {k \in DOMAIN r.data : fnmatch(k, pattern)}

MockRedis_exists(r, key) == IF key \in DOMAIN r.data THEN 1 ELSE 0

----------------------------------------------------------------------------
(* L1Cache *)

\* ttl is Optional[int]
L1Cache_set(r, key, value, ttl, t) ==
    LET ttl_ == IF ttl = {} THEN cache_l1_ttl_seconds ELSE CHOOSE x \in ttl : TRUE
    IN  MockRedis_setex(r, key, ttl_, json_dumps(value), t)

L1Cache_get(r, key, t) ==
    LET g == MockRedis_get(r, key, t)
    IN  [r |-> g.r, res |-> IF g.hit THEN json_loads(g.text) ELSE None]

L1Cache_delete(r, key) ==
    LET d == MockRedis_delete(r, {key})
    IN  [r |-> d.r, res |-> d.res > 0]

L1Cache_delete_pattern(r, pattern) ==
    LET keys == MockRedis_keys(r, pattern)
    IN  IF keys = {} THEN [r |-> r, res |-> 0]
        ELSE MockRedis_delete(r, keys)

L1Cache_exists(r, key) == MockRedis_exists(r, key) > 0

----------------------------------------------------------------------------
(* CacheItem and L2Cache.  The OrderedDict is a sequence of items, the     *)
(* least recently used first.                                              *)

\* L2Cache(default_ttl=None): default_ttl or settings.cache_l2_ttl_seconds
default_ttl == cache_l2_ttl_seconds

\* CacheItem.__init__, with ttl an Optional[int]
CacheItem(key, value, ttl, t) ==
    [key |-> key, value |-> value, created_at |-> t,
     expires_at |-> {t + x : x \in ttl},
     access_count |-> 0, last_accessed |-> t]


\* an item that never expires
is_expired_never(item, t) == FALSE

is_expired(item, t) ==
    IF item.expires_at = {} THEN FALSE
    ELSE \E e \in item.expires_at : t > e

\* an access that pushes the expiry forward
access_sliding(item, t) ==
    [item EXCEPT !.access_count = @ + 1, !.last_accessed = t,
                 !.expires_at = {t + (e - item.created_at) : e \in @}]

\* CacheItem.access
access(item, t) ==
    [item EXCEPT !.access_count = @ + 1, !.last_accessed = t]

SeqKeys(c) == {c[i].key : i \in DOMAIN c}
IndexOf(c, key) == CHOOSE i \in DOMAIN c : c[i].key = key
Without(c, key) == SelectSeq(c, LAMBDA it : it.key # key)


\* evicting the most recently used item
evict_mru(c) == IF c = <<>> THEN c ELSE SubSeq(c, 1, Len(c) - 1)

\* del self._cache[next(iter(self._cache))]
evict_lru(c) == IF c = <<>> THEN c ELSE Tail(c)

\* while len(self._cache) >= self.max_size: self._evict_lru()
RECURSIVE EvictWhileFull(_)
EvictWhileFull(c) ==
    IF Len(c) >= max_size /\ c # <<>> THEN EvictWhileFull(evict_lru(c)) ELSE c

move_to_end(c, key) ==
    LET i == IndexOf(c, key) IN Append(Without(c, key), c[i])

\* a set whose size check is len(self._cache) > self.max_size
L2Cache_set_off_by_one(c, key, value, ttl, t) ==
    LET ttl_ == IF ttl = {} THEN {default_ttl} ELSE ttl
        item == CacheItem(key, value, ttl_, t)
        c1   == IF key \in SeqKeys(c) THEN Without(c, key) ELSE c
        c2   == IF Len(c1) > max_size THEN EvictWhileFull(c1) ELSE c1
    IN  [c |-> Append(c2, item), res |-> TRUE]

L2Cache_set(c, key, value, ttl, t) ==
    LET ttl_ == IF ttl = {} THEN {default_ttl} ELSE ttl
        item == CacheItem(key, value, ttl_, t)
        c1   == IF key \in SeqKeys(c) THEN Without(c, key) ELSE c
        c2   == EvictWhileFull(c1)
    IN  [c |-> Append(c2, item), res |-> TRUE]

\* a get whose hit leaves the item where it is in the OrderedDict
L2Cache_get_no_move(c, key, t) ==
    IF key \notin SeqKeys(c) THEN [c |-> c, res |-> None]
    ELSE LET item == c[IndexOf(c, key)] IN
         IF is_expired(item, t) THEN [c |-> Without(c, key), res |-> None]
         ELSE [c |-> [c EXCEPT ![IndexOf(c, key)] = access(item, t)], res |-> item.value]

L2Cache_get(c, key, t) ==
    IF key \notin SeqKeys(c) THEN [c |-> c, res |-> None]
    ELSE LET item == c[IndexOf(c, key)] IN
         IF is_expired(item, t) THEN [c |-> Without(c, key), res |-> None]
         ELSE LET m == move_to_end(c, key)
              IN  [c |-> [m EXCEPT ![Len(m)] = access(item, t)], res |-> item.value]


\* a delete that reports success whether or not the key was stored
L2Cache_delete_always_true(c, key) == [c |-> Without(c, key), res |-> TRUE]

L2Cache_delete(c, key) ==
    IF key \in SeqKeys(c) THEN [c |-> Without(c, key), res |-> TRUE]
    ELSE [c |-> c, res |-> FALSE]

L2Cache_exists(c, key, t) ==
    IF key \notin SeqKeys(c) THEN [c |-> c, res |-> FALSE]
    ELSE IF is_expired(c[IndexOf(c, key)], t) THEN [c |-> Without(c, key), res |-> FALSE]
    ELSE [c |-> c, res |-> TRUE]

\* self._cache.clear()
L2Cache_clear(c) == [c |-> <<>>, res |-> TRUE]

\* asyncio.sleep(60) in _cleanup_expired_items
cleanup_interval == 60

\* one pass of _cleanup_expired_items: del self._cache[key] for the expired keys
cleanup_expired_items(c, t) == SelectSeq(c, LAMBDA it : ~is_expired(it, t))

\* a close that leaves the cleanup task running
L2Cache_close_keeps_task(c, task) == [c |-> <<>>, task |-> task]

\* close(): the cleanup task is cancelled and forgotten, the cache cleared
L2Cache_close(c, task) == [c |-> <<>>, task |-> "none"]

\* get_keys(pattern): "if pattern:" is false for None and for the empty string
L2Cache_get_keys(c, pattern) ==
    LET keys == [i \in DOMAIN c |-> c[i].key]
    IN  IF pattern # <<>> THEN SelectSeq(keys, LAMBDA k : fnmatch(k, pattern))
        ELSE keys

----------------------------------------------------------------------------
(* HierarchicalCache.  h = [r, c, stats]: the L1 store, the L2 OrderedDict *)
(* and the counters.  Each operator gives h afterwards and the result.     *)

\* settings.cache_l1_enabled, cache_l2_enabled (config.py defaults)
l1_enabled == TRUE
l2_enabled == TRUE

Bump(st, name) == [st EXCEPT ![name] = @ + 1]

\* "ttl or default" on an Optional[int]: None and 0 are both falsy
\* a zero ttl handed on as it is
TtlOr_keeps_zero(ttl, default) ==
    IF ttl = {} THEN default ELSE CHOOSE x \in ttl : TRUE

TtlOr(ttl, default) ==
    IF ttl = {} \/ ttl = {0} THEN default ELSE CHOOSE x \in ttl : TRUE


\* a lookup that returns the L2 value without writing it to L1
HierarchicalCache_get_no_promotion(h, key, t) ==
    LET g1  == L1Cache_get(h.r, key, t)
        st1 == Bump(h.stats, "l1_misses")
        g2  == L2Cache_get(h.c, key, t)
    IN  IF g1.res # None
        THEN [h |-> [r |-> g1.r, c |-> h.c, stats |-> Bump(h.stats, "l1_hits")],
              res |-> g1.res]
        ELSE IF g2.res # None
        THEN [h |-> [r |-> g1.r, c |-> g2.c, stats |-> Bump(st1, "l2_hits")],
              res |-> g2.res]
        ELSE [h |-> [r |-> g1.r, c |-> g2.c, stats |-> Bump(st1, "l2_misses")],
              res |-> None]

\* a lookup that queries L2Cache even when L1 holds the value
HierarchicalCache_get_queries_both(h, key, t) ==
    LET g1  == L1Cache_get(h.r, key, t)
        st1 == Bump(h.stats, "l1_misses")
        g2  == L2Cache_get(h.c, key, t)
    IN  IF g1.res # None
        THEN [h |-> [r |-> g1.r, c |-> g2.c, stats |-> Bump(h.stats, "l1_hits")],
              res |-> g1.res]
        ELSE IF g2.res # None
        THEN [h |-> [r |-> L1Cache_set(g1.r, key, g2.res, {promotion_ttl}, t).r,
                     c |-> g2.c, stats |-> Bump(st1, "l2_hits")],
              res |-> g2.res]
        ELSE [h |-> [r |-> g1.r, c |-> g2.c, stats |-> Bump(st1, "l2_misses")],
              res |-> None]

HierarchicalCache_get(h, key, t) ==
    LET g1  == L1Cache_get(h.r, key, t)
        r1  == IF l1_enabled THEN g1.r ELSE h.r
        st1 == IF l1_enabled THEN Bump(h.stats, "l1_misses") ELSE h.stats
        g2  == L2Cache_get(h.c, key, t)
    IN  IF l1_enabled /\ g1.res # None
        THEN [h |-> [r |-> g1.r, c |-> h.c, stats |-> Bump(h.stats, "l1_hits")],
              res |-> g1.res]
        ELSE IF ~l2_enabled
        THEN [h |-> [r |-> r1, c |-> h.c, stats |-> st1], res |-> None]
        ELSE IF g2.res # None
        THEN [h |-> [r |-> IF l1_enabled
                           THEN L1Cache_set(r1, key, g2.res, {promotion_ttl}, t).r
                           ELSE r1,
                     c |-> g2.c,
                     stats |-> Bump(st1, "l2_hits")],
              res |-> g2.res]
        ELSE [h |-> [r |-> r1, c |-> g2.c, stats |-> Bump(st1, "l2_misses")],
              res |-> None]


\* a set that writes the first tier only
HierarchicalCache_set_l1_only(h, key, value, ttl, t) ==
    LET s1 == L1Cache_set(h.r, key, value, {TtlOr(ttl, cache_l1_ttl_seconds)}, t)
    IN  [h |-> [r |-> s1.r, c |-> h.c, stats |-> Bump(h.stats, "sets")], res |-> TRUE]

HierarchicalCache_set(h, key, value, ttl, t) ==
    LET l1_ttl == TtlOr(ttl, cache_l1_ttl_seconds)
        s1 == L1Cache_set(h.r, key, value, {l1_ttl}, t)
        l2_ttl == TtlOr(ttl, cache_l2_ttl_seconds)
        s2 == L2Cache_set(h.c, key, value, {l2_ttl}, t)
        success == (l1_enabled => s1.res) /\ (l2_enabled => s2.res)
    IN  [h |-> [r |-> IF l1_enabled THEN s1.r ELSE h.r,
                c |-> IF l2_enabled THEN s2.c ELSE h.c,
                stats |-> IF success THEN Bump(h.stats, "sets") ELSE h.stats],
         res |-> success]

\* set on a HierarchicalCache constructed with settings.cache_write_through =
\* write_through: __init__ keeps the setting in self.write_through and set
\* never reads it
HierarchicalCache_set_wt(h, key, value, ttl, t, write_through) ==
    HierarchicalCache_set(h, key, value, ttl, t)

\* a delete that stops at the first tier that did not hold the key
HierarchicalCache_delete_short_circuit(h, key) ==
    LET d1 == L1Cache_delete(h.r, key)
        d2 == L2Cache_delete(h.c, key)
    IN  IF ~d1.res THEN [h |-> [h EXCEPT !.r = d1.r], res |-> FALSE]
        ELSE [h |-> [r |-> d1.r, c |-> d2.c,
                     stats |-> IF d2.res THEN Bump(h.stats, "deletes") ELSE h.stats],
              res |-> d2.res]

HierarchicalCache_delete(h, key) ==
    LET d1 == L1Cache_delete(h.r, key)
        d2 == L2Cache_delete(h.c, key)
        success == (l1_enabled => d1.res) /\ (l2_enabled => d2.res)
    IN  [h |-> [r |-> IF l1_enabled THEN d1.r ELSE h.r,
                c |-> IF l2_enabled THEN d2.c ELSE h.c,
                stats |-> IF success THEN Bump(h.stats, "deletes") ELSE h.stats],
         res |-> success]

HierarchicalCache_invalidate(h, key) ==
    LET d == HierarchicalCache_delete(h, key)
    IN  [h |-> IF d.res THEN [d.h EXCEPT !.stats = Bump(@, "invalidations")] ELSE d.h,
         res |-> d.res]

\* for key in l2_keys: if await self.l2_cache.delete(key): total_invalidated += 1
RECURSIVE DeleteEach(_, _, _)
DeleteEach(c, keys, count) ==
    IF keys = <<>> THEN [c |-> c, res |-> count]
    ELSE LET d == L2Cache_delete(c, Head(keys))
         IN  DeleteEach(d.c, Tail(keys), IF d.res THEN count + 1 ELSE count)

\* a pattern invalidation that counts a key removed from both tiers once
HierarchicalCache_invalidate_pattern_distinct(h, pattern) ==
    LET d1 == L1Cache_delete_pattern(h.r, pattern)
        d2 == DeleteEach(h.c, L2Cache_get_keys(h.c, pattern), 0)
        gone == (DOMAIN h.r.data \ DOMAIN d1.r.data) \cup (SeqKeys(h.c) \ SeqKeys(d2.c))
        total_invalidated == Cardinality(gone)
    IN  [h |-> [r |-> d1.r, c |-> d2.c,
                stats |-> [h.stats EXCEPT !["invalidations"] = @ + total_invalidated]],
         res |-> total_invalidated]

HierarchicalCache_invalidate_pattern(h, pattern) ==
    LET d1 == L1Cache_delete_pattern(h.r, pattern)
        d2 == DeleteEach(h.c, L2Cache_get_keys(h.c, pattern), 0)
        total_invalidated == (IF l1_enabled THEN d1.res ELSE 0)
                             + (IF l2_enabled THEN d2.res ELSE 0)
    IN  [h |-> [r |-> IF l1_enabled THEN d1.r ELSE h.r,
                c |-> IF l2_enabled THEN d2.c ELSE h.c,
                stats |-> [h.stats EXCEPT !["invalidations"] = @ + total_invalidated]],
         res |-> total_invalidated]


\* an existence check that finds nothing
HierarchicalCache_exists_never(h, key, t) == [h |-> h, res |-> FALSE]

HierarchicalCache_exists(h, key, t) ==
    LET e2 == L2Cache_exists(h.c, key, t)
    IN  IF l1_enabled /\ L1Cache_exists(h.r, key) THEN [h |-> h, res |-> TRUE]
        ELSE IF l2_enabled THEN [h |-> [h EXCEPT !.c = e2.c], res |-> e2.res]
        ELSE [h |-> h, res |-> FALSE]

\* warm_data is the dict in iteration order: a sequence of <<key, value>>.
\* written collects the keys for which set was called, overwrote those of them
\* that had a live entry at that moment.
L1Expired_(r, k, t) == k \in DOMAIN r.expiry /\ t > r.expiry[k]
\* whether a tier holds an entry for key that has not expired
Live(h, key, t) ==
    \/ (key \in DOMAIN h.r.data /\ ~L1Expired_(h.r, key, t))
    \/ (key \in SeqKeys(h.c) /\ ~is_expired(h.c[IndexOf(h.c, key)], t))

RECURSIVE WarmEach(_, _, _, _, _, _)
WarmEach(h, warm_data, warmed_count, written, overwrote, t) ==
    IF warm_data = <<>>
    THEN [h |-> h, res |-> warmed_count, written |-> written, overwrote |-> overwrote]
    ELSE LET key == Head(warm_data)[1]
             value == Head(warm_data)[2]
             e == HierarchicalCache_exists(h, key, t)
             s == HierarchicalCache_set(e.h, key, value, {}, t)
         IN  IF ~e.res
             THEN WarmEach(s.h, Tail(warm_data),
                           IF s.res THEN warmed_count + 1 ELSE warmed_count,
                           written \cup {key},
                           IF Live(h, key, t) THEN overwrote \cup {key} ELSE overwrote, t)
             ELSE WarmEach(e.h, Tail(warm_data), warmed_count, written, overwrote, t)

HierarchicalCache_warm_cache(h, warm_data, t) == WarmEach(h, warm_data, 0, {}, {}, t)

\* get_performance_stats()["hierarchical"]; total_hit_rate = num / den percent
HierarchicalCache_get_performance_stats(st) ==
    LET total_hits == st["l1_hits"] + st["l2_hits"]
        total_misses == st["l1_misses"] + st["l2_misses"]
        total_requests == total_hits + total_misses
    IN  [total_hits |-> total_hits, total_misses |-> total_misses,
         total_hit_rate |-> IF total_requests > 0
                            THEN [num |-> total_hits * 100, den |-> total_requests]
                            ELSE [num |-> 0, den |-> 1]]

----------------------------------------------------------------------------
(* HierarchicalCache when a tier fails during a call.  f = [L1, L2] tells  *)
(* for each tier what happens to the calls made on it: "ok"; "store", the  *)
(* store under the tier raises and the tier's own except clause answers    *)
(* (get gives None, exists gives False, set raises CacheError); "tier",    *)
(* the method of the tier object given to HierarchicalCache raises.        *)

TierFaults == {"ok", "store", "tier"}
FaultPairs == [L1 : TierFaults, L2 : TierFaults]
NoFault == [L1 |-> "ok", L2 |-> "ok"]

\* a lookup without the outer except clause
HierarchicalCache_get_unguarded(h, key, t, f) ==
    LET g == HierarchicalCache_get(h, key, t) IN
    IF f = NoFault THEN [h |-> g.h, res |-> g.res, raised |-> FALSE]
    ELSE [h |-> h, res |-> None, raised |-> TRUE]

HierarchicalCache_get_faulty(h, key, t, f) ==
    LET g1  == IF f.L1 = "ok" THEN L1Cache_get(h.r, key, t) ELSE [r |-> h.r, res |-> None]
        st1 == Bump(h.stats, "l1_misses")
        g2  == IF f.L2 = "ok" THEN L2Cache_get(h.c, key, t) ELSE [c |-> h.c, res |-> None]
    IN  IF f.L1 = "tier"
        THEN [h |-> h, res |-> None, raised |-> FALSE]
        ELSE IF g1.res # None
        THEN [h |-> [r |-> g1.r, c |-> h.c, stats |-> Bump(h.stats, "l1_hits")],
              res |-> g1.res, raised |-> FALSE]
        ELSE IF f.L2 = "tier"
        THEN [h |-> [r |-> g1.r, c |-> h.c, stats |-> st1], res |-> None, raised |-> FALSE]
        ELSE IF g2.res # None
        THEN [h |-> [r |-> IF f.L1 = "ok"
                           THEN L1Cache_set(g1.r, key, g2.res, {promotion_ttl}, t).r
                           ELSE g1.r,
                     c |-> g2.c,
                     stats |-> Bump(st1, "l2_hits")],
              res |-> g2.res, raised |-> FALSE]
        ELSE [h |-> [r |-> g1.r, c |-> g2.c, stats |-> Bump(st1, "l2_misses")],
              res |-> None, raised |-> FALSE]

HierarchicalCache_exists_faulty(h, key, t, f) ==
    LET e1 == f.L1 = "ok" /\ L1Cache_exists(h.r, key)
        e2 == IF f.L2 = "ok" THEN L2Cache_exists(h.c, key, t) ELSE [c |-> h.c, res |-> FALSE]
    IN  IF f.L1 = "tier" THEN [h |-> h, res |-> FALSE, raised |-> FALSE]
        ELSE IF e1 THEN [h |-> h, res |-> TRUE, raised |-> FALSE]
        ELSE IF f.L2 = "tier" THEN [h |-> h, res |-> FALSE, raised |-> FALSE]
        ELSE [h |-> [h EXCEPT !.c = e2.c], res |-> e2.res, raised |-> FALSE]

\* a set that counts and reports success when either tier was written
HierarchicalCache_set_any_tier(h, key, value, ttl, t, f) ==
    LET l1_ttl == TtlOr(ttl, cache_l1_ttl_seconds)
        s1 == IF f.L1 = "ok" THEN L1Cache_set(h.r, key, value, {l1_ttl}, t)
              ELSE [r |-> h.r, res |-> FALSE]
        l2_ttl == TtlOr(ttl, cache_l2_ttl_seconds)
        s2 == IF f.L2 = "ok" THEN L2Cache_set(h.c, key, value, {l2_ttl}, t)
              ELSE [c |-> h.c, res |-> FALSE]
        success == s1.res \/ s2.res
    IN  [h |-> [r |-> s1.r, c |-> s2.c,
                stats |-> IF success THEN Bump(h.stats, "sets") ELSE h.stats],
         res |-> success, raised |-> FALSE, l1 |-> s1.res, l2 |-> s2.res,
         l1_ttl |-> l1_ttl, l2_ttl |-> l2_ttl]

\* l1 and l2 tell whether the write of each tier succeeded
HierarchicalCache_set_faulty(h, key, value, ttl, t, f) ==
    LET l1_ttl == TtlOr(ttl, cache_l1_ttl_seconds)
        s1 == IF f.L1 = "ok" THEN L1Cache_set(h.r, key, value, {l1_ttl}, t)
              ELSE [r |-> h.r, res |-> FALSE]
        l2_ttl == TtlOr(ttl, cache_l2_ttl_seconds)
        s2 == IF f.L2 = "ok" THEN L2Cache_set(h.c, key, value, {l2_ttl}, t)
              ELSE [c |-> h.c, res |-> FALSE]
        success == s1.res /\ s2.res
    IN  [h |-> [r |-> s1.r, c |-> s2.c,
                stats |-> IF success THEN Bump(h.stats, "sets") ELSE h.stats],
         res |-> success, raised |-> FALSE, l1 |-> s1.res, l2 |-> s2.res,
         l1_ttl |-> l1_ttl, l2_ttl |-> l2_ttl]

----------------------------------------------------------------------------
(* CacheKeyGenerator *)

\* code points of the characters used
ord(ch) ==
    CASE ch = "1" -> 49 [] ch = "2" -> 50 [] ch = ":" -> 58 [] ch = "=" -> 61
      [] ch = "a" -> 97 [] ch = "b" -> 98 [] ch = "f" -> 102 [] ch = "g" -> 103
      [] ch = "x" -> 120

\* str.__lt__
RECURSIVE StrLess(_, _)
StrLess(x, y) ==
    IF y = <<>> THEN FALSE
    ELSE IF x = <<>> THEN TRUE
    ELSE IF ord(Head(x)) < ord(Head(y)) THEN TRUE
    ELSE IF ord(Head(x)) > ord(Head(y)) THEN FALSE
    ELSE StrLess(Tail(x), Tail(y))

\* parameter values: an int or a str
PInt(n) == [type |-> "int", n |-> n, s |-> <<>>]
PStr(x) == [type |-> "str", n |-> 0, s |-> x]

\* f"{v}"
format(v) ==
    IF v.type = "int"
    THEN <<CASE v.n = 1 -> "1" [] v.n = 2 -> "2">>
    ELSE v.s

\* (k1, v1) < (k2, v2) for the items of one dict: the names differ
ItemLess(p, q) == StrLess(p[1], q[1])

RECURSIVE InsertSorted(_, _)
InsertSorted(item, sq) ==
    IF sq = <<>> THEN <<item>>
    ELSE IF ItemLess(item, Head(sq)) THEN <<item>> \o sq
    ELSE <<Head(sq)>> \o InsertSorted(item, Tail(sq))

\* a key built from the parameters in the order they were passed
sorted_unsorted(items) == items

\* sorted(kwargs.items())
RECURSIVE sorted(_)
sorted(items) ==
    IF items = <<>> THEN <<>>
    ELSE InsertSorted(Head(items), sorted(Tail(items)))

\* ":".join(f"{k}={v}" for k, v in params)
RECURSIVE join(_)
join(params) ==
    IF params = <<>> THEN <<>>
    ELSE LET one == Head(params)[1] \o <<"=">> \o format(Head(params)[2])
         IN  IF Tail(params) = <<>> THEN one
             ELSE one \o <<":">> \o join(Tail(params))

\* kwargs is the dict in insertion order
generate_generic_key(tool_name, kwargs) ==
    LET sorted_params == sorted(kwargs)
        param_str == join(sorted_params)
    IN  IF param_str # <<>> THEN tool_name \o <<":">> \o param_str
        ELSE tool_name

default_ttls ==
    [volume_ranking |-> 30, investor_ranking |-> 60, volume_change |-> 120,
     sector_volume |-> 300, market_cap |-> 600, unusual_volume |-> 60,
     health_check |-> 10]

\* clock = [weekday, minute]: datetime.now().weekday() and the minute of the day
is_trading_time_now(clock) ==
    IF clock.weekday >= 5 THEN FALSE
    ELSE 9 * 60 <= clock.minute /\ clock.minute <= 15 * 60 + 30


\* the two adjustments swapped
calculate_ttl_swapped(tool_name, is_trading_time, clock) ==
    LET base_ttl == IF tool_name \in DOMAIN default_ttls
                    THEN default_ttls[tool_name] ELSE 300
        trading == IF is_trading_time = {} THEN is_trading_time_now(clock)
                   ELSE TRUE \in is_trading_time
    IN  IF trading THEN base_ttl * 2 ELSE base_ttl \div 2

\* is_trading_time is an Optional[bool]
calculate_ttl(tool_name, is_trading_time, clock) ==
    LET base_ttl == IF tool_name \in DOMAIN default_ttls
                    THEN default_ttls[tool_name] ELSE 300
        trading == IF is_trading_time = {} THEN is_trading_time_now(clock)
                   ELSE TRUE \in is_trading_time
    IN  IF trading THEN base_ttl \div 2 ELSE base_ttl * 2

(* Inputs of the key policy *)
ToolKeys == {<<"f">>, <<"g">>}
ParamNames == {<<"a">>, <<"b">>, <<"a", "b">>}
ParamValues == {PInt(1), PStr(<<"x">>)}
Items == {<<n, v>> : n \in ParamNames, v \in ParamValues}
Kwargs ==
    {<<>>} \cup {<<i>> : i \in Items}
    \cup {w \in {<<i, j>> : i \in Items, j \in Items} : w[1][1] # w[2][1]}
ToolNames == (DOMAIN default_ttls) \cup {"other"}
Clocks == {[weekday |-> w, minute |-> m] : w \in {4, 5}, m \in {539, 540, 930, 931}}

InpInit ==
    [call |-> "none", tool |-> <<>>, kwargs |-> <<>>, key |-> <<>>, prev |-> {},
     tool_name |-> "", is_trading_time |-> {}, clock |-> {}, ttl |-> 0]

----------------------------------------------------------------------------
(* cache_result and invalidate_cache (decorators.py).  The decorated       *)
(* function is f(a); each invocation of it returns a value or raises.      *)

func_name == <<"f">>

\* what an invocation of the wrapped function does: it returns or it raises
Raise == [type |-> "raise", cls |-> "", v |-> ""]
FuncResults == {Str("result"), Str("skip"), None}
FuncOutcomes == FuncResults \cup {Raise}

\* sig.bind(*args, **kwargs) with apply_defaults(): the arguments by name,
\* whether they were passed by position or by keyword
bind(form, a) == << <<<<"a">>, PInt(a)>> >>

\* the **kwargs of a call: the arguments passed by keyword only
kwargs_of(form, a) == IF form = "keyword" THEN << <<<<"a">>, PInt(a)>> >> ELSE <<>>

\* f"{func_name}:{hash(str(arguments))}": the key of the except clause of
\* _generate_cache_key; "#" stands for the hash, which is one value for one
\* str(arguments)
fallback_key(name, arguments) ==
    name \o <<":", "#">> \o join(arguments)

\* key_prefix is an Optional[str]: None and "" are the empty sequence.
\* fault = "key": generate_generic_key raises and the except clause answers.
generate_cache_key(name, arguments, key_prefix, fault) ==
    LET base_key == IF key_prefix # <<>> THEN key_prefix \o <<":">> \o name ELSE name
        filtered_args == SelectSeq(arguments, LAMBDA it : it[1] # <<"s", "e", "l", "f">>)
    IN  IF fault = "key" THEN fallback_key(name, arguments)
        ELSE IF filtered_args # <<>> THEN generate_generic_key(base_key, filtered_args)
        ELSE base_key

\* a condition that is never consulted
condition_ignored(cond, result) == TRUE

\* condition is None ("none") or lambda result: result != "skip"
condition(cond, result) == cond = "none" \/ result # Str("skip")

\* a wrapper whose cache.set is not wrapped in a try of its own
wrapper_set_unguarded(h, cfg, arguments, r1, r2, fault, t) ==
    LET cache_key == generate_cache_key(func_name, arguments, cfg.key_prefix, fault)
        g == HierarchicalCache_get(h, cache_key, t)
        s == HierarchicalCache_set(g.h, cache_key, r1, cfg.ttl, t)
        except(hh, outs) == [h |-> hh, res |-> r2, raised |-> r2 = Raise,
                             outs |-> Append(outs, r2), got |-> fault \notin {"bind", "get"}]
    IN  IF fault \in {"bind", "get"} THEN except(h, <<>>)
        ELSE IF g.res # None
        THEN [h |-> g.h, res |-> g.res, raised |-> FALSE, outs |-> <<>>, got |-> TRUE]
        ELSE IF r1 = Raise THEN except(g.h, <<r1>>)
        ELSE IF ~condition(cfg.condition, r1)
        THEN [h |-> g.h, res |-> r1, raised |-> FALSE, outs |-> <<r1>>, got |-> TRUE]
        ELSE IF fault = "set" THEN except(g.h, <<r1>>)
        ELSE [h |-> s.h, res |-> r1, raised |-> FALSE, outs |-> <<r1>>, got |-> TRUE]

\* wrapper(*args, **kwargs).  r1 is the outcome of the invocation made after a
\* cache miss, r2 that of the invocation made by the outer except clause;
\* fault tells which step raises: "bind" is sig.bind or the whole of
\* _generate_cache_key, "key" is generate_generic_key alone, "get" is cache.get
\* and "set" is cache.set.
\* outs lists the outcomes of the invocations made, in order.
wrapper(h, cfg, arguments, r1, r2, fault, t) ==
    LET cache_key == generate_cache_key(func_name, arguments, cfg.key_prefix, fault)
        g == HierarchicalCache_get(h, cache_key, t)
        s == HierarchicalCache_set(g.h, cache_key, r1, cfg.ttl, t)
        except(hh, outs) == [h |-> hh, res |-> r2, raised |-> r2 = Raise,
                             outs |-> Append(outs, r2), got |-> fault \notin {"bind", "get"}]
    IN  IF fault \in {"bind", "get"} THEN except(h, <<>>)
        ELSE IF g.res # None
        THEN [h |-> g.h, res |-> g.res, raised |-> FALSE, outs |-> <<>>, got |-> TRUE]
        ELSE IF r1 = Raise THEN except(g.h, <<r1>>)
        ELSE IF ~condition(cfg.condition, r1) \/ fault = "set"
        THEN [h |-> g.h, res |-> r1, raised |-> FALSE, outs |-> <<r1>>, got |-> TRUE]
        ELSE [h |-> s.h, res |-> r1, raised |-> FALSE, outs |-> <<r1>>, got |-> TRUE]

\* invalidate_cache(func_name, *args, **kwargs): the key is built from kwargs
invalidate_cache(h, name, kwargs) ==
    LET cache_key == generate_cache_key(name, kwargs, <<>>, "none")
        d == HierarchicalCache_invalidate(h, cache_key)
    IN  [h |-> d.h, res |-> d.res, key |-> cache_key]

(* Inputs of the decorator *)
Forms == {"positional", "keyword"}
Args == {1, 2}
Faults == {"none", "bind", "key", "get", "set"}
DecoTTLs == {{}, {1}}
KeyPrefixes == {<<>>, <<"p">>}
Conditions == {"none", "not_skip"}

DecoInit ==
    [decorated |-> FALSE, ttl |-> {}, key_prefix |-> <<>>, condition |-> "none",
     invocations |-> 0]

----------------------------------------------------------------------------
(* Calls in flight at the same time.  A coroutine runs until an await that *)
(* suspends it: the wrapped function suspends while it fetches, and        *)
(* HierarchicalCache.set suspends in `await self.l1_cache.set(...)`, whose *)
(* Redis round trip lies between the write of L1 and the write of L2Cache. *)

Callers == {1, 2}
CoValues == {Str("old"), Str("new")}

\* HierarchicalCache.set up to the return of l1_cache.set
HierarchicalCache_set_first(h, key, value, ttl, t) ==
    LET l1_ttl == TtlOr(ttl, cache_l1_ttl_seconds)
        s1 == L1Cache_set(h.r, key, value, {l1_ttl}, t)
    IN  [h |-> [h EXCEPT !.r = IF l1_enabled THEN s1.r ELSE h.r],
         success |-> (l1_enabled => s1.res)]

\* HierarchicalCache.set from the write of L2Cache on
HierarchicalCache_set_second(h, key, value, ttl, t, success) ==
    LET l2_ttl == TtlOr(ttl, cache_l2_ttl_seconds)
        s2 == L2Cache_set(h.c, key, value, {l2_ttl}, t)
        success_ == success /\ (l2_enabled => s2.res)
    IN  [h |-> [h EXCEPT !.c = IF l2_enabled THEN s2.c ELSE h.c,
                         !.stats = IF success_ THEN Bump(h.stats, "sets") ELSE h.stats],
         res |-> success_]

\* HierarchicalCache.delete up to the end of `await self.l1_cache.delete(key)`,
\* where the caller is suspended while Redis answers
HierarchicalCache_delete_first(h, key) ==
    LET d1 == L1Cache_delete(h.r, key)
    IN  [h |-> [h EXCEPT !.r = IF l1_enabled THEN d1.r ELSE h.r],
         success |-> (l1_enabled => d1.res)]

\* HierarchicalCache.delete from the delete on L2Cache on; invalidate(key)
\* is delete(key) and a count of the invalidation
HierarchicalCache_delete_second(h, key, success, invalidate) ==
    LET d2 == L2Cache_delete(h.c, key)
        success_ == success /\ (l2_enabled => d2.res)
        st == IF success_ THEN Bump(h.stats, "deletes") ELSE h.stats
    IN  [h |-> [h EXCEPT !.c = IF l2_enabled THEN d2.c ELSE h.c,
                         !.stats = IF success_ /\ invalidate
                                   THEN Bump(st, "invalidations") ELSE st],
         res |-> success_]

\* a wrapper that does not look at what cache.get returned
wrapper_begin_always_fetch(h, key, t) ==
    LET g == HierarchicalCache_get(h, key, t)
    IN  [h |-> g.h, hit |-> FALSE, res |-> None]

\* wrapper up to the invocation of the function: cache.get, and on a miss
\* the call of func, which suspends
wrapper_begin(h, key, t) ==
    LET g == HierarchicalCache_get(h, key, t)
    IN  [h |-> g.h, hit |-> g.res # None, res |-> g.res]

Idle ==
    [pc |-> "idle", op |-> "none", key |-> <<>>, value |-> None, res |-> None,
     fetched |-> FALSE, with |-> {}, ok |-> TRUE]

\* done lists the callers in the order their calls completed
CoInit == [task |-> [p \in Callers |-> Idle], done |-> <<>>, invocations |-> 0]

----------------------------------------------------------------------------
(* CircuitBreaker (async_optimization/concurrency.py).  The object is the  *)
(* record [state, failure_count, last_failure_time]; last_failure_time is  *)
(* None ({}) or a time ({t}).                                               *)

\* how a wrapped function ends: it returns, it raises, or asyncio.wait_for
\* gives up on it after timeout_seconds
CircuitBreaker_init ==
    [state |-> "CLOSED", failure_count |-> 0, last_failure_time |-> {}]

CircuitBreaker_should_attempt_reset(b, t) ==
    IF b.last_failure_time = {} THEN FALSE
    ELSE \E l \in b.last_failure_time : (t - l) > recovery_timeout

CircuitBreaker_on_success(b) ==
    [b EXCEPT !.failure_count = 0, !.state = "CLOSED"]

\* a breaker that opens one failure late
CircuitBreaker_on_failure_late(b, t) ==
    [b EXCEPT !.failure_count = @ + 1,
              !.last_failure_time = {t},
              !.state = IF b.failure_count + 1 > failure_threshold THEN "OPEN" ELSE @]

CircuitBreaker_on_failure(b, t) ==
    [b EXCEPT !.failure_count = @ + 1,
              !.last_failure_time = {t},
              !.state = IF b.failure_count + 1 >= failure_threshold THEN "OPEN" ELSE @]

\* call up to the await of func(): rejected tells that it raised
\* Exception("Circuit breaker is OPEN") before invoking func
CircuitBreaker_call_begin(b, t) ==
    IF b.state = "OPEN"
    THEN IF CircuitBreaker_should_attempt_reset(b, t)
         THEN [b |-> [b EXCEPT !.state = "HALF_OPEN"], rejected |-> FALSE]
         ELSE [b |-> b, rejected |-> TRUE]
    ELSE [b |-> b, rejected |-> FALSE]

\* call from the end of the await on
CircuitBreaker_call_end(b, outcome, t) ==
    IF outcome = "ok" THEN CircuitBreaker_on_success(b)
    ELSE CircuitBreaker_on_failure(b, t)

\* cb is the object; pc tells which callers are inside call; calls and
\* invoked count the calls made and the invocations of func; streak counts
\* the failed calls since the last successful one; last is the last event
BreakerInit ==
    [cb |-> CircuitBreaker_init, pc |-> [p \in Callers |-> "idle"],
     calls |-> 0, invoked |-> 0, streak |-> 0, last |-> "none"]

----------------------------------------------------------------------------
(* CircuitBreakerRetry (error_handling/retry.py) *)

CircuitBreakerRetry_init ==
    [state |-> "closed", failure_count |-> 0, last_failure_time |-> {},
     half_open_attempts |-> 0]

CircuitBreakerRetry_should_attempt_reset(b, t) ==
    IF b.last_failure_time = {} THEN FALSE
    ELSE \E l \in b.last_failure_time : (t - l) >= recovery_timeout

move_to_half_open(b) == [b EXCEPT !.state = "half_open", !.half_open_attempts = 0]

move_to_closed(b) ==
    [b EXCEPT !.state = "closed", !.failure_count = 0, !.half_open_attempts = 0]

move_to_open(b) == [b EXCEPT !.state = "open", !.half_open_attempts = 0]

\* a breaker that closes on the first success in half_open
record_success_closes_at_once(b) ==
    IF b.state = "half_open" THEN move_to_closed(b)
    ELSE IF b.state = "closed" THEN [b EXCEPT !.failure_count = 0]
    ELSE b

record_success(b) ==
    IF b.state = "half_open"
    THEN LET b1 == [b EXCEPT !.half_open_attempts = @ + 1]
         IN  IF b1.half_open_attempts >= half_open_requests THEN move_to_closed(b1) ELSE b1
    ELSE IF b.state = "closed" THEN [b EXCEPT !.failure_count = 0]
    ELSE b

record_failure(b, t) ==
    LET b1 == [b EXCEPT !.failure_count = @ + 1, !.last_failure_time = {t}]
    IN  IF b1.state = "half_open" THEN move_to_open(b1)
        ELSE IF b1.state = "closed" /\ b1.failure_count >= failure_threshold
        THEN move_to_open(b1)
        ELSE b1

\* execute up to the await of operation(): rejected tells that it raised
\* Exception("Circuit breaker is open") before invoking operation
CircuitBreakerRetry_execute_begin(b, t) ==
    IF b.state = "open"
    THEN IF CircuitBreakerRetry_should_attempt_reset(b, t)
         THEN [b |-> move_to_half_open(b), rejected |-> FALSE]
         ELSE [b |-> b, rejected |-> TRUE]
    ELSE [b |-> b, rejected |-> FALSE]

\* execute from the end of the await on
CircuitBreakerRetry_execute_end(b, ok, t) ==
    IF ok THEN record_success(b) ELSE record_failure(b, t)

\* cb is the object and pc tells which callers are inside execute. For the
\* claims: calls and invoked count the calls made and the invocations of
\* operation; streak counts the failures recorded in closed since the last
\* success recorded in closed or since the breaker closed; ho counts the
\* successes recorded in half_open since the breaker became half_open; last
\* is the last event.
RetryInit ==
    [cb |-> CircuitBreakerRetry_init, pc |-> [p \in Callers |-> "idle"],
     calls |-> 0, invoked |-> 0, streak |-> 0, ho |-> 0, last |-> "none"]

----------------------------------------------------------------------------
(* BatchProcessor (async_optimization/batch.py).                           *)
(*   current_batch : the items waiting, in order                           *)
(*   timer  : self.batch_timer: "none" is None, "sleeping" a task that has *)
(*            not yet taken the lock, "done" a task that has ended         *)
(*   lock   : who holds processing_lock                                    *)
(*   proc   : the batch whose processor_func is suspended in an await      *)
(*   fut    : the future add_item returned for each item                   *)
(*   kind   : processor_func is a plain function ("sync") or a coroutine   *)
(*            function that suspends while it works ("async")              *)
(* processor_func is the error_processor of the tests: it raises when the  *)
(* batch holds ErrorItem and returns one result per item otherwise.        *)

ErrorItem == "error_item"
BatchItems == {"a", "b", ErrorItem}
NoFuture == [st |-> "none", val |-> ""]
Pending == [st |-> "pending", val |-> ""]

\* f"processed_{item}"
processor_result(item) == [st |-> "result", val |-> item]
processor_raises(items) == \E n \in DOMAIN items : items[n] = ErrorItem

SeqItems(items) == {items[n] : n \in DOMAIN items}

\* the try block of _process_current_batch after processor_func has run:
\* zip(batch_to_process, results) on return, every future on a raise
set_futures(fut, items) ==
    [i \in DOMAIN fut |->
        IF i \in SeqItems(items) /\ fut[i].st = "pending"
        THEN IF processor_raises(items) THEN [st |-> "exception", val |-> "ValueError"]
             ELSE processor_result(i)
        ELSE fut[i]]

\* _process_current_batch called by the task `by` ("add", "timer", "stop").
\* It empties current_batch and cancels self.batch_timer. Called by the timer
\* task itself, the cancel is of the running task: a plain processor_func
\* runs to the end, while the await of a coroutine processor_func raises
\* CancelledError, which `except Exception` does not catch, so the futures
\* of the batch are left as they are.
process_current_batch(b, by) ==
    IF b.current_batch = <<>> THEN b
    ELSE LET items == b.current_batch
             b1 == [b EXCEPT !.current_batch = <<>>, !.timer = "none",
                             !.handled = Append(@, [by |-> by, items |-> items])]
         IN  IF b.kind = "sync" THEN [b1 EXCEPT !.fut = set_futures(@, items)]
             ELSE IF by = "timer" THEN b1
             ELSE [b1 EXCEPT !.proc = <<[by |-> by, items |-> items]>>,
                             !.lock = IF by = "add" THEN "add" ELSE @]

BatchProcessor_init ==
    [running |-> FALSE, started |-> FALSE, kind |-> "sync", current_batch |-> <<>>,
     timer |-> "none", lock |-> "free", proc |-> <<>>,
     fut |-> [i \in BatchItems |-> NoFuture], handled |-> <<>>]

L2AuxInit ==
    [task |-> "sleeping", wake |-> cleanup_interval, touch |-> [k \in Keys |-> 0],
     ops |-> 0, last |-> [op |-> "init", key |-> <<>>, hit |-> FALSE]]
PromoInit ==
    [calls |-> 0, set |-> <<>>, del |-> <<>>, stored |-> [k \in Keys |-> {}],
     gone |-> [k \in Keys |-> FALSE],
     last |-> [op |-> "init", key |-> <<>>, val |-> None, promoted |-> FALSE]]

----------------------------------------------------------------------------
(* PriorityTaskScheduler (async_optimization/concurrency.py).               *)
(*   task_queue : the heap, as the sequence of its TaskItems; heappop takes *)
(*                an item that no other item is less than (which one of     *)
(*                several equal ones is left open)                          *)
(*   scheduler_task : self._scheduler_task: "none" is None, "alive" a task  *)
(*                that runs _scheduler_loop, "finished" one that has ended  *)
(*   exec    : the TaskItems whose _execute_task is running                 *)
(*   wait    : where the caller of wait_all is                              *)
(*   clock   : time.time()                                                  *)
(* A TaskItem is [priority, task_id, n]; n tells the items apart as Python  *)
(* objects and is the index of the item's future in fut.  started, prios    *)
(* and early are history: the order of the starts, the priority given to    *)
(* each item, the items submitted before wait_all was called.               *)

\* a comparison that puts the lowest priority first
TaskItem_lt_lowest_first(a, b) == a.priority < b.priority

\* TaskItem.__lt__
TaskItem_lt(a, b) == a.priority > b.priority

\* the indices heapq.heappop may take: the least items under __lt__
heappop(q) == {i \in DOMAIN q : \A j \in DOMAIN q : ~TaskItem_lt(q[j], q[i])}

\* f"task_{len(self.task_queue)}_{time.time()}"
task_id(q, clock) == <<Len(q), clock>>

PrioInit ==
    [task_queue |-> <<>>, active_tasks |-> 0, running_tasks |-> {},
     completed_tasks |-> {}, running |-> FALSE, scheduler_task |-> "none",
     exec |-> {}, fut |-> [n \in 1..MaxTasks |-> "none"], wait |-> "idle", clock |-> 0,
     started |-> <<>>, prios |-> <<>>, early |-> {}]

----------------------------------------------------------------------------
(* DependencyScheduler (async_optimization/scheduler.py).                   *)
(*   tasks   : self.tasks in insertion order; the task added n-th has the   *)
(*             id f"dep_{n-1}_{time.time()}", which the length alone makes  *)
(*             unique (no task is ever removed), so n stands for the id     *)
(*   loops   : the tasks created for _scheduler_loop, each "ready" (created,*)
(*             first step queued), "sleeping" (in asyncio.sleep(0.01)),     *)
(*             "woken" (timer fired, step queued) or "finished"             *)
(*   scheduler_task : the index in loops of self.scheduler_task, 0 for None *)
(*   ready   : the event loop's queue of steps it created through call_soon:*)
(*             steps of scheduler loops and first steps of _execute_task    *)
(*   inflight: per task, the _execute_task coroutines inside task.coro()    *)
(*   wait, joined : where the caller of wait_all is, and the loop it awaits *)
(* starts and early are history: how often each task was started, and the   *)
(* tasks started while a dependency was not in completed_tasks.             *)

\* TaskStatus values a task is finished with
Terminal == {"completed", "failed", "cancelled"}

\* _are_dependencies_met
are_dependencies_met(task, completed_tasks) ==
    \A dep_id \in task.depends_on : dep_id \in completed_tasks

\* ready_tasks of one turn of _scheduler_loop, in the order of self.tasks
ready_tasks(tasks, completed_tasks) ==
    SelectSeq([n \in 1..Len(tasks) |-> n],
              LAMBDA n : /\ tasks[n].status = "pending"
                         /\ are_dependencies_met(tasks[n], completed_tasks))

DepInit ==
    [tasks |-> <<>>, running |-> FALSE, completed_tasks |-> {}, scheduler_task |-> 0,
     loops |-> <<>>, ready |-> <<>>, inflight |-> [n \in 1..MaxDepTasks |-> 0],
     wait |-> "idle", joined |-> 0,
     starts |-> [n \in 1..MaxDepTasks |-> 0], early |-> {}]

----------------------------------------------------------------------------
(* The state as the operators take it, and the history kept for the claims *)

TTLs == {{}, {1}}
\* seconds the clock may advance between two calls
TickSteps == {1, 2}
WarmValues == {Str("new")}
WarmData ==
    {<<<<k, v>>>> : k \in Keys, v \in WarmValues}
    \cup {w \in {<<<<k1, v1>>, <<k2, v2>>>> :
                    k1 \in Keys, k2 \in Keys, v1 \in WarmValues, v2 \in WarmValues} :
            w[1][1] # w[2][1]}

Store == [r |-> [data |-> l1_data, expiry |-> l1_expiry], c |-> l2_cache, stats |-> stats]

Commit(h) ==
    /\ l1_data' = h.r.data
    /\ l1_expiry' = h.r.expiry
    /\ l2_cache' = h.c
    /\ stats' = h.stats

\* x: what else the call reports (a rate, the keys it wrote)
Ret(op, key, val, ok, n, x) ==
    [op |-> op, key |-> key, val |-> val, ok |-> ok, n |-> n, x |-> x]

L1Entry(r, k) == IF k \in DOMAIN r.data THEN {<<r.data[k], r.expiry[k]>>} ELSE {}
L2Entry(c, k) ==
    IF k \in SeqKeys(c)
    THEN LET it == c[IndexOf(c, k)] IN {<<it.value, it.created_at, it.expires_at>>}
    ELSE {}
L1Expired(r, k, t) == k \in DOMAIN r.expiry /\ t > r.expiry[k]
L2Expired(c, k, t) == k \in SeqKeys(c) /\ is_expired(c[IndexOf(c, k)], t)

\* what a direct get on a tier would return now
L1Peek(k) == L1Cache_get(Store.r, k, now).res
L2Peek(k) == L2Cache_get(l2_cache, k, now).res

\* hist.tset[tier][k]: the arguments of the last set called on the tier itself
\* for k, while nothing but time and lookups has touched the entry since.
\* After a call other than that set, the record is dropped when the entry was
\* rewritten, deleted or evicted; it stays when the entry is as it was or was
\* removed because it had expired.
TsetAfter(pre, post, t) ==
    [tier \in {"L1", "L2"} |-> [k \in Keys |->
        LET before == IF tier = "L1" THEN L1Entry(pre.r, k) ELSE L2Entry(pre.c, k)
            after  == IF tier = "L1" THEN L1Entry(post.r, k) ELSE L2Entry(post.c, k)
            expired == IF tier = "L1" THEN L1Expired(pre.r, k, t) ELSE L2Expired(pre.c, k, t)
        IN  IF before = after \/ (after = {} /\ expired)
            THEN hist.tset[tier][k] ELSE {}]]

\* hist.hset[k]: the arguments of the last successful HierarchicalCache.set of k
\* with a positive ttl, dropped by a delete of k or a later write to k; evicted
\* tells that L2Cache has evicted k since.
HsetEvictions(pre, post) ==
    [k \in Keys |->
        IF hist.hset[k] # {} /\ k \in SeqKeys(pre.c) /\ k \notin SeqKeys(post.c)
        THEN {[x EXCEPT !.evicted = TRUE] : x \in hist.hset[k]}
        ELSE hist.hset[k]]

HsetDrop(hs, keys) == [k \in Keys |-> IF k \in keys THEN {} ELSE hs[k]]

NoRecord == [k \in Keys |-> {}]

Init ==
    /\ now = 0
    /\ l1_data = <<>>
    /\ l1_expiry = <<>>
    /\ l2_cache = <<>>
    /\ stats = [l1_hits |-> 0, l1_misses |-> 0, l2_hits |-> 0, l2_misses |-> 0,
                sets |-> 0, deletes |-> 0, invalidations |-> 0]
    /\ ret = Ret("init", <<>>, None, FALSE, 0, {})
    /\ hist = [ops |-> 0, hset |-> NoRecord,
               tset |-> [tier \in {"L1", "L2"} |-> NoRecord],
               setRun |-> <<>>, getCalls |-> 0, getHits |-> 0]
    /\ inp = InpInit
    /\ deco = DecoInit
    /\ co = CoInit
    /\ breaker = BreakerInit
    /\ retry = RetryInit
    /\ batch = BatchProcessor_init
    /\ l2aux = L2AuxInit
    /\ promo = PromoInit
    /\ prio = PrioInit
    /\ dep = DepInit

----------------------------------------------------------------------------
(* Actions: one per call.  Every call is counted in hist.ops. *)

CanCall == hist.ops < MaxOps

Hist(tset, hset, setRun, calls, hits) ==
    [ops |-> hist.ops + 1, tset |-> tset, hset |-> hset, setRun |-> setRun,
     getCalls |-> hist.getCalls + calls, getHits |-> hist.getHits + hits]

\* the clock advances between two calls
Tick(d) ==
    /\ CanCall
    /\ now' = now + d
    /\ ret' = Ret("tick", <<>>, None, FALSE, d, {})
    /\ hist' = [hist EXCEPT !.ops = @ + 1]
    /\ UNCHANGED <<l1_data, l1_expiry, l2_cache, stats, inp, deco, co, breaker, retry, batch, l2aux, promo, prio, dep>>

H_get(k) ==
    LET g == HierarchicalCache_get(Store, k, now) IN
    /\ CanCall
    /\ Commit(g.h)
    /\ ret' = Ret("H.get", k, g.res, g.res # None, 0, {})
    /\ hist' = Hist(TsetAfter(Store, g.h, now), hist.hset, <<>>,
                    1, IF g.res # None THEN 1 ELSE 0)
    /\ UNCHANGED <<now, inp, deco, co, breaker, retry, batch, l2aux, promo, prio, dep>>

H_set(k, v, ttl) ==
    LET s == HierarchicalCache_set(Store, k, v, ttl, now)
        rec == IF s.res /\ ttl # {} /\ ttl # {0}
               THEN {[v |-> v, at |-> now, ttl |-> x, evicted |-> FALSE] : x \in ttl}
               ELSE {}
    IN
    /\ CanCall
    /\ Commit(s.h)
    /\ ret' = Ret("H.set", k, v, s.res, 0, ttl)
    /\ hist' = Hist(TsetAfter(Store, s.h, now),
                    [HsetEvictions(Store, s.h) EXCEPT ![k] = rec], <<>>, 0, 0)
    /\ UNCHANGED <<now, inp, deco, co, breaker, retry, batch, l2aux, promo, prio, dep>>

H_delete(k) ==
    LET d == HierarchicalCache_delete(Store, k) IN
    /\ CanCall
    /\ Commit(d.h)
    /\ ret' = Ret("H.delete", k, None, d.res, 0, {})
    /\ hist' = Hist(TsetAfter(Store, d.h, now), HsetDrop(hist.hset, {k}), <<>>, 0, 0)
    /\ UNCHANGED <<now, inp, deco, co, breaker, retry, batch, l2aux, promo, prio, dep>>

H_invalidate(k) ==
    LET d == HierarchicalCache_invalidate(Store, k) IN
    /\ CanCall
    /\ Commit(d.h)
    /\ ret' = Ret("H.invalidate", k, None, d.res, 0, {})
    /\ hist' = Hist(TsetAfter(Store, d.h, now), HsetDrop(hist.hset, {k}), <<>>, 0, 0)
    /\ UNCHANGED <<now, inp, deco, co, breaker, retry, batch, l2aux, promo, prio, dep>>

H_invalidate_pattern(p) ==
    LET d == HierarchicalCache_invalidate_pattern(Store, p)
        removed == {k \in Keys : \/ L1Entry(Store.r, k) # L1Entry(d.h.r, k)
                                 \/ L2Entry(Store.c, k) # L2Entry(d.h.c, k)}
    IN
    /\ CanCall
    /\ Commit(d.h)
    /\ ret' = Ret("H.invalidate_pattern", p, None, TRUE, d.res, {})
    /\ hist' = Hist(TsetAfter(Store, d.h, now), HsetDrop(hist.hset, removed), <<>>, 0, 0)
    /\ UNCHANGED <<now, inp, deco, co, breaker, retry, batch, l2aux, promo, prio, dep>>

H_exists(k) ==
    LET e == HierarchicalCache_exists(Store, k, now) IN
    /\ CanCall
    /\ Commit(e.h)
    /\ ret' = Ret("H.exists", k, None, e.res, 0, {})
    /\ hist' = Hist(TsetAfter(Store, e.h, now), hist.hset, <<>>, 0, 0)
    /\ UNCHANGED <<now, inp, deco, co, breaker, retry, batch, l2aux, promo, prio, dep>>

H_warm_cache(warm_data) ==
    LET w == HierarchicalCache_warm_cache(Store, warm_data, now) IN
    /\ CanCall
    /\ Commit(w.h)
    /\ ret' = Ret("H.warm_cache", <<>>, None, TRUE, w.res,
                  [data |-> warm_data, written |-> w.written, overwrote |-> w.overwrote])
    /\ hist' = Hist(TsetAfter(Store, w.h, now),
                    HsetDrop(HsetEvictions(Store, w.h), w.written), <<>>, 0, 0)
    /\ UNCHANGED <<now, inp, deco, co, breaker, retry, batch, l2aux, promo, prio, dep>>

H_get_performance_stats ==
    /\ CanCall
    /\ ret' = Ret("H.get_performance_stats", <<>>, None, TRUE, 0,
                  HierarchicalCache_get_performance_stats(stats))
    /\ hist' = [hist EXCEPT !.ops = @ + 1]
    /\ UNCHANGED <<now, l1_data, l1_expiry, l2_cache, stats, inp, deco, co, breaker, retry, batch, l2aux, promo, prio, dep>>

(* Calls on the tiers themselves: cache.l1_cache and cache.l2_cache *)

L1_set(k, v, ttl) ==
    LET s == L1Cache_set(Store.r, k, v, ttl, now)
        post == [Store EXCEPT !.r = s.r]
        rec == {[v |-> v, at |-> now, ttl |-> x] : x \in ttl}
    IN
    /\ CanCall
    /\ Commit(post)
    /\ ret' = Ret("L1.set", k, v, s.res, 0, ttl)
    /\ hist' = Hist([TsetAfter(Store, post, now) EXCEPT !["L1"][k] = rec],
                    HsetDrop(hist.hset, {k}), hist.setRun, 0, 0)
    /\ UNCHANGED <<now, inp, deco, co, breaker, retry, batch, l2aux, promo, prio, dep>>

L1_get(k) ==
    LET g == L1Cache_get(Store.r, k, now)
        post == [Store EXCEPT !.r = g.r]
    IN
    /\ CanCall
    /\ Commit(post)
    /\ ret' = Ret("L1.get", k, g.res, g.res # None, 0, {})
    /\ hist' = Hist(TsetAfter(Store, post, now), hist.hset, hist.setRun, 0, 0)
    /\ UNCHANGED <<now, inp, deco, co, breaker, retry, batch, l2aux, promo, prio, dep>>

L1_delete(k) ==
    LET d == L1Cache_delete(Store.r, k)
        post == [Store EXCEPT !.r = d.r]
    IN
    /\ CanCall
    /\ Commit(post)
    /\ ret' = Ret("L1.delete", k, None, d.res, 0, {})
    /\ hist' = Hist(TsetAfter(Store, post, now), HsetDrop(hist.hset, {k}),
                    hist.setRun, 0, 0)
    /\ UNCHANGED <<now, inp, deco, co, breaker, retry, batch, l2aux, promo, prio, dep>>

L2_set(k, v, ttl) ==
    LET s == L2Cache_set(l2_cache, k, v, ttl, now)
        post == [Store EXCEPT !.c = s.c]
        rec == {[v |-> v, at |-> now, ttl |-> x] : x \in ttl}
        run == IF l2_cache = <<>> THEN <<<<k, v>>>>
               ELSE IF hist.setRun # <<>> THEN Append(hist.setRun, <<k, v>>)
               ELSE <<>>
    IN
    /\ CanCall
    /\ Commit(post)
    /\ ret' = Ret("L2.set", k, v, s.res, 0, ttl)
    /\ hist' = Hist([TsetAfter(Store, post, now) EXCEPT !["L2"][k] = rec],
                    HsetDrop(HsetEvictions(Store, post), {k}), run, 0, 0)
    /\ UNCHANGED <<now, inp, deco, co, breaker, retry, batch, l2aux, promo, prio, dep>>

L2_get(k) ==
    LET g == L2Cache_get(l2_cache, k, now)
        post == [Store EXCEPT !.c = g.c]
    IN
    /\ CanCall
    /\ Commit(post)
    /\ ret' = Ret("L2.get", k, g.res, g.res # None, 0, {})
    /\ hist' = Hist(TsetAfter(Store, post, now), hist.hset, <<>>, 0, 0)
    /\ UNCHANGED <<now, inp, deco, co, breaker, retry, batch, l2aux, promo, prio, dep>>

L2_delete(k) ==
    LET d == L2Cache_delete(l2_cache, k)
        post == [Store EXCEPT !.c = d.c]
    IN
    /\ CanCall
    /\ Commit(post)
    /\ ret' = Ret("L2.delete", k, None, d.res, 0, {})
    /\ hist' = Hist(TsetAfter(Store, post, now), HsetDrop(hist.hset, {k}), <<>>, 0, 0)
    /\ UNCHANGED <<now, inp, deco, co, breaker, retry, batch, l2aux, promo, prio, dep>>

L2_clear ==
    LET d == L2Cache_clear(l2_cache)
        post == [Store EXCEPT !.c = d.c]
    IN
    /\ CanCall
    /\ Commit(post)
    /\ ret' = Ret("L2.clear", <<>>, None, d.res, 0, {})
    /\ hist' = Hist(TsetAfter(Store, post, now), HsetDrop(hist.hset, Keys), <<>>, 0, 0)
    /\ UNCHANGED <<now, inp, deco, co, breaker, retry, batch, l2aux, promo, prio, dep>>

L2_exists(k) ==
    LET e == L2Cache_exists(l2_cache, k, now)
        post == [Store EXCEPT !.c = e.c]
    IN
    /\ CanCall
    /\ Commit(post)
    /\ ret' = Ret("L2.exists", k, None, e.res, 0, {})
    /\ hist' = Hist(TsetAfter(Store, post, now), hist.hset, <<>>, 0, 0)
    /\ UNCHANGED <<now, inp, deco, co, breaker, retry, batch, l2aux, promo, prio, dep>>

\* the calls on a HierarchicalCache, and on its tiers to seed them
Next ==
    \/ \E d \in TickSteps : Tick(d)
    \/ \E k \in Keys : H_get(k)
    \/ \E k \in Keys, v \in Values, ttl \in TTLs : H_set(k, v, ttl)
    \/ \E k \in Keys : H_delete(k)
    \/ \E k \in Keys : H_invalidate(k)
    \/ \E p \in Patterns : H_invalidate_pattern(p)
    \/ \E k \in Keys : H_exists(k)
    \/ \E w \in WarmData : H_warm_cache(w)
    \/ H_get_performance_stats
    \/ \E k \in Keys, v \in Values : L1_set(k, v, {})
    \/ \E k \in Keys, v \in Values : L2_set(k, v, {})
    \/ \E k \in Keys : L1_delete(k)
    \/ \E k \in Keys : L2_delete(k)

Spec == Init /\ [][Next]_vars

(* Calls on the CacheKeyGenerator *)

K_generate_generic_key(tool, kwargs) ==
    /\ inp' = [InpInit EXCEPT !.call = "generate_generic_key",
                              !.tool = tool, !.kwargs = kwargs,
                              !.key = generate_generic_key(tool, kwargs),
                              !.prev = IF inp.call = "generate_generic_key"
                                       THEN {[tool |-> inp.tool, kwargs |-> inp.kwargs,
                                              key |-> inp.key]}
                                       ELSE {}]
    /\ UNCHANGED <<now, l1_data, l1_expiry, l2_cache, stats, ret, hist, deco, co, breaker, retry, batch, l2aux, promo, prio, dep>>

K_calculate_ttl(tool_name, is_trading_time, clock) ==
    /\ inp' = [InpInit EXCEPT !.call = "calculate_ttl",
                              !.tool_name = tool_name,
                              !.is_trading_time = is_trading_time,
                              !.clock = IF is_trading_time = {} THEN {clock} ELSE {},
                              !.ttl = calculate_ttl(tool_name, is_trading_time, clock)]
    /\ UNCHANGED <<now, l1_data, l1_expiry, l2_cache, stats, ret, hist, deco, co, breaker, retry, batch, l2aux, promo, prio, dep>>

NextKey ==
    \/ \E tool \in ToolKeys, kwargs \in Kwargs : K_generate_generic_key(tool, kwargs)
    \/ \E tool_name \in ToolNames, itt \in {{}, {TRUE}, {FALSE}}, clock \in Clocks :
          K_calculate_ttl(tool_name, itt, clock)

SpecKey == Init /\ [][NextKey]_vars

\* the calls on an L1Cache and an L2Cache used on their own
NextTier ==
    \/ \E d \in TickSteps : Tick(d)
    \/ \E k \in Keys, v \in Values, ttl \in TTLs : L1_set(k, v, ttl)
    \/ \E k \in Keys : L1_get(k)
    \/ \E k \in Keys : L1_delete(k)
    \/ \E k \in Keys, v \in Values, ttl \in TTLs : L2_set(k, v, ttl)
    \/ \E k \in Keys : L2_get(k)
    \/ \E k \in Keys : L2_delete(k)
    \/ \E k \in Keys : L2_exists(k)
    \/ L2_clear

SpecTier == Init /\ [][NextTier]_vars

(* Calls on a function decorated with cache_result *)

\* cache_result(ttl, key_prefix, condition)(f)
D_decorate(ttl, key_prefix, cond) ==
    /\ ~deco.decorated
    /\ deco' = [deco EXCEPT !.decorated = TRUE, !.ttl = ttl,
                            !.key_prefix = key_prefix, !.condition = cond]
    /\ UNCHANGED <<now, l1_data, l1_expiry, l2_cache, stats, ret, hist, inp, co, breaker, retry, batch, l2aux, promo, prio, dep>>

\* f(a) or f(a=a) through the wrapper
D_call(form, a, r1, r2, fault) ==
    LET arguments == bind(form, a)
        w == wrapper(Store, deco, arguments, r1, r2, fault, now)
        key == generate_cache_key(func_name, arguments, deco.key_prefix, fault)
        miss == fault \notin {"bind", "get"}
                /\ HierarchicalCache_get(Store, key, now).res = None
        again == fault \in {"bind", "get"} \/ (miss /\ r1 = Raise)
    IN
    /\ CanCall
    /\ deco.decorated
    \* an outcome or a fault of a step that this call does not reach is not drawn
    /\ ~miss => r1 = None
    /\ ~again => r2 = None
    /\ fault = "set" => (miss /\ r1 # Raise /\ condition(deco.condition, r1))
    /\ Commit(w.h)
    /\ ret' = Ret("D.call", key, w.res, ~w.raised, Len(w.outs),
                  [a |-> a, fault |-> fault, outs |-> w.outs])
    /\ deco' = [deco EXCEPT !.invocations = @ + Len(w.outs)]
    /\ hist' = Hist(TsetAfter(Store, w.h, now), HsetEvictions(Store, w.h), <<>>,
                    IF w.got THEN 1 ELSE 0,
                    IF w.got /\ w.outs = <<>> THEN 1 ELSE 0)
    /\ UNCHANGED <<now, inp, co, breaker, retry, batch, l2aux, promo, prio, dep>>

\* invalidate_cache("f", a) or invalidate_cache("f", a=a)
D_invalidate_cache(form, a) ==
    LET i == invalidate_cache(Store, func_name, kwargs_of(form, a)) IN
    /\ CanCall
    /\ deco.decorated
    /\ Commit(i.h)
    /\ ret' = Ret("D.invalidate_cache", i.key, None, i.res, 0, [form |-> form, a |-> a])
    /\ hist' = Hist(TsetAfter(Store, i.h, now), HsetDrop(hist.hset, {i.key}), <<>>, 0, 0)
    /\ UNCHANGED <<now, inp, deco, co, breaker, retry, batch, l2aux, promo, prio, dep>>

NextDeco ==
    \/ \E d \in TickSteps : Tick(d)
    \/ \E ttl \in DecoTTLs, key_prefix \in KeyPrefixes, cond \in Conditions :
          D_decorate(ttl, key_prefix, cond)
    \/ \E form \in Forms, a \in Args, r1 \in FuncOutcomes, r2 \in FuncOutcomes,
          fault \in Faults : D_call(form, a, r1, r2, fault)
    \/ \E form \in Forms, a \in Args : D_invalidate_cache(form, a)

SpecDeco == Init /\ [][NextDeco]_vars

(* Calls on a HierarchicalCache whose tiers may fail *)

\* ttl of set: omitted, zero, or one second
FaultTTLs == {{}, {0}, {1}}

F_get(k, f) ==
    LET g == HierarchicalCache_get_faulty(Store, k, now, f) IN
    /\ CanCall
    \* the fault of a tier that the call does not reach is not drawn
    /\ (f.L1 = "tier" \/ (f.L1 = "ok" /\ L1Peek(k) # None)) => f.L2 = "ok"
    /\ Commit(g.h)
    /\ ret' = Ret("F.get", k, g.res, g.res # None, 0, [f |-> f, raised |-> g.raised])
    /\ hist' = Hist(TsetAfter(Store, g.h, now), hist.hset, <<>>,
                    1, IF g.res # None THEN 1 ELSE 0)
    /\ UNCHANGED <<now, inp, deco, co, breaker, retry, batch, l2aux, promo, prio, dep>>

F_exists(k, f) ==
    LET e == HierarchicalCache_exists_faulty(Store, k, now, f) IN
    /\ CanCall
    /\ (f.L1 = "tier" \/ (f.L1 = "ok" /\ L1Cache_exists(Store.r, k))) => f.L2 = "ok"
    /\ Commit(e.h)
    /\ ret' = Ret("F.exists", k, None, e.res, 0, [f |-> f, raised |-> e.raised])
    /\ hist' = Hist(TsetAfter(Store, e.h, now), hist.hset, <<>>, 0, 0)
    /\ UNCHANGED <<now, inp, deco, co, breaker, retry, batch, l2aux, promo, prio, dep>>

F_set(k, v, ttl, f) ==
    LET s == HierarchicalCache_set_faulty(Store, k, v, ttl, now, f) IN
    /\ CanCall
    \* a raise of the tier's set and a raise of its store end in the same except
    /\ f.L1 # "tier" /\ f.L2 # "tier"
    /\ Commit(s.h)
    /\ ret' = Ret("F.set", k, v, s.res, 0,
                  [f |-> f, raised |-> s.raised, l1 |-> s.l1, l2 |-> s.l2, ttl |-> ttl,
                   l1_ttl |-> s.l1_ttl, l2_ttl |-> s.l2_ttl])
    /\ hist' = Hist(TsetAfter(Store, s.h, now),
                    HsetDrop(HsetEvictions(Store, s.h), {k}), <<>>, 0, 0)
    /\ UNCHANGED <<now, inp, deco, co, breaker, retry, batch, l2aux, promo, prio, dep>>

NextFault ==
    \/ \E d \in TickSteps : Tick(d)
    \/ \E k \in Keys, f \in FaultPairs : F_get(k, f)
    \/ \E k \in Keys, f \in FaultPairs : F_exists(k, f)
    \/ \E k \in Keys, v \in Values, ttl \in FaultTTLs, f \in FaultPairs : F_set(k, v, ttl, f)

SpecFault == Init /\ [][NextFault]_vars

(* set on HierarchicalCache objects that differ in cache_write_through and *)
(* share the two tiers (get_l1_cache() and get_l2_cache() are singletons)  *)

W_set(k, v, ttl, write_through) ==
    LET s == HierarchicalCache_set_wt(Store, k, v, ttl, now, write_through) IN
    /\ CanCall
    /\ Commit(s.h)
    /\ ret' = Ret("W.set", k, v, s.res, 0, [write_through |-> write_through, ttl |-> ttl])
    /\ hist' = Hist(TsetAfter(Store, s.h, now),
                    HsetDrop(HsetEvictions(Store, s.h), {k}), <<>>, 0, 0)
    /\ UNCHANGED <<now, inp, deco, co, breaker, retry, batch, l2aux, promo, prio, dep>>

NextWT ==
    \/ \E d \in TickSteps : Tick(d)
    \/ \E k \in Keys, v \in Values, ttl \in TTLs, write_through \in BOOLEAN :
          W_set(k, v, ttl, write_through)

SpecWT == Init /\ [][NextWT]_vars

(* Two callers, each making one call: a call of the decorated function or a *)
(* HierarchicalCache.set, one step per stretch between two suspensions     *)

InFlight(p) == co.task[p].pc \notin {"idle", "done"}

C_call(p, a) ==
    LET key == generate_cache_key(func_name, bind("positional", a), <<>>, "none")
        b == wrapper_begin(Store, key, now)
    IN
    /\ co.task[p].pc = "idle"
    /\ Commit(b.h)
    /\ co' = [co EXCEPT
                !.task[p] = [pc |-> IF b.hit THEN "done" ELSE "func", op |-> "call",
                             key |-> key, value |-> None, res |-> b.res,
                             fetched |-> ~b.hit,
                             with |-> {q \in Callers : InFlight(q)}, ok |-> TRUE],
                !.done = IF b.hit THEN Append(@, p) ELSE @,
                !.invocations = IF b.hit THEN @ ELSE @ + 1]
    /\ UNCHANGED <<now, ret, hist, inp, deco, breaker, retry, batch, l2aux, promo, prio, dep>>

\* the function returns r and the wrapper goes on into cache.set
C_return(p, r) ==
    LET t == co.task[p]
        f == HierarchicalCache_set_first(Store, t.key, r, {}, now)
    IN
    /\ t.pc = "func"
    /\ Commit(f.h)
    /\ co' = [co EXCEPT !.task[p] = [t EXCEPT !.pc = "set_l2", !.value = r, !.res = r,
                                               !.ok = f.success]]
    /\ UNCHANGED <<now, ret, hist, inp, deco, breaker, retry, batch, l2aux, promo, prio, dep>>

C_set(p, k, v) ==
    LET f == HierarchicalCache_set_first(Store, k, v, {}, now) IN
    /\ co.task[p].pc = "idle"
    /\ Commit(f.h)
    /\ co' = [co EXCEPT
                !.task[p] = [pc |-> "set_l2", op |-> "set", key |-> k, value |-> v,
                             res |-> None, fetched |-> FALSE,
                             with |-> {q \in Callers : InFlight(q)}, ok |-> f.success]]
    /\ UNCHANGED <<now, ret, hist, inp, deco, breaker, retry, batch, l2aux, promo, prio, dep>>

C_set_second(p) ==
    LET t == co.task[p]
        s == HierarchicalCache_set_second(Store, t.key, t.value, {}, now, t.ok)
    IN
    /\ t.pc = "set_l2"
    /\ Commit(s.h)
    /\ co' = [co EXCEPT !.task[p] = [t EXCEPT !.pc = "done", !.ok = s.res],
                        !.done = Append(@, p)]
    /\ UNCHANGED <<now, ret, hist, inp, deco, breaker, retry, batch, l2aux, promo, prio, dep>>

NextCo ==
    \/ \E p \in Callers, a \in Args : C_call(p, a)
    \/ \E p \in Callers, r \in CoValues : C_return(p, r)
    \/ \E p \in Callers, k \in Keys, v \in CoValues : C_set(p, k, v)
    \/ \E p \in Callers : C_set_second(p)

SpecCo == Init /\ [][NextCo]_vars

\* whether the calls of p and q were in flight at the same time
Overlap(p, q) == p \in co.task[q].with \/ q \in co.task[p].with

(* Calls through a CircuitBreaker; func() runs between B_call and B_return *)

\* time passes (time.time())
B_tick(d) ==
    /\ now + d <= MaxNow
    /\ now' = now + d
    /\ UNCHANGED <<l1_data, l1_expiry, l2_cache, stats, ret, hist, inp, deco, co,
                   breaker, retry, batch, l2aux, promo, prio, dep>>

CB_call(p) ==
    LET c == CircuitBreaker_call_begin(breaker.cb, now) IN
    /\ breaker.pc[p] = "idle"
    /\ breaker.calls < BreakerMaxCalls
    /\ breaker' = [breaker EXCEPT
                     !.cb = c.b,
                     !.pc[p] = IF c.rejected THEN "idle" ELSE "running",
                     !.calls = @ + 1,
                     !.invoked = IF c.rejected THEN @ ELSE @ + 1,
                     !.last = IF c.rejected THEN "rejected" ELSE "invoked"]
    /\ UNCHANGED <<now, l1_data, l1_expiry, l2_cache, stats, ret, hist, inp, deco, co,
                   retry, batch, l2aux, promo, prio, dep>>

CB_return(p, outcome) ==
    /\ breaker.pc[p] = "running"
    /\ breaker' = [breaker EXCEPT
                     !.cb = CircuitBreaker_call_end(breaker.cb, outcome, now),
                     !.pc[p] = "idle",
                     !.streak = IF outcome = "ok" THEN 0 ELSE @ + 1,
                     !.last = IF outcome = "ok" THEN "success" ELSE "failure"]
    /\ UNCHANGED <<now, l1_data, l1_expiry, l2_cache, stats, ret, hist, inp, deco, co,
                   retry, batch, l2aux, promo, prio, dep>>

NextBreaker ==
    \/ \E d \in TickSteps : B_tick(d)
    \/ \E p \in Callers : CB_call(p)
    \/ \E p \in Callers, outcome \in {"ok", "raise", "timeout"} : CB_return(p, outcome)

SpecBreaker == Init /\ [][NextBreaker]_vars

(* Calls through a CircuitBreakerRetry *)

CBR_execute(p) ==
    LET c == CircuitBreakerRetry_execute_begin(retry.cb, now) IN
    /\ retry.pc[p] = "idle"
    /\ retry.calls < BreakerMaxCalls
    /\ retry' = [retry EXCEPT
                   !.cb = c.b,
                   !.pc[p] = IF c.rejected THEN "idle" ELSE "running",
                   !.calls = @ + 1,
                   !.invoked = IF c.rejected THEN @ ELSE @ + 1,
                   !.ho = IF c.b.state # retry.cb.state THEN 0 ELSE @,
                   !.last = IF c.rejected THEN "rejected" ELSE "invoked"]
    /\ UNCHANGED <<now, l1_data, l1_expiry, l2_cache, stats, ret, hist, inp, deco, co,
                   breaker, batch, l2aux, promo, prio, dep>>

CBR_return(p, ok) ==
    LET b == CircuitBreakerRetry_execute_end(retry.cb, ok, now)
        st == retry.cb.state
    IN
    /\ retry.pc[p] = "running"
    /\ retry' = [retry EXCEPT
                   !.cb = b,
                   !.pc[p] = "idle",
                   !.streak = IF st = "closed" THEN (IF ok THEN 0 ELSE @ + 1)
                              ELSE IF b.state = "closed" THEN 0 ELSE @,
                   !.ho = IF st = "half_open" /\ ok THEN @ + 1 ELSE @,
                   !.last = IF ok THEN "success" ELSE "failure"]
    /\ UNCHANGED <<now, l1_data, l1_expiry, l2_cache, stats, ret, hist, inp, deco, co,
                   breaker, batch, l2aux, promo, prio, dep>>

NextRetry ==
    \/ \E d \in TickSteps : B_tick(d)
    \/ \E p \in Callers : CBR_execute(p)
    \/ \E p \in Callers, ok \in BOOLEAN : CBR_return(p, ok)

SpecRetry == Init /\ [][NextRetry]_vars

(* A BatchProcessor: the callers of start, add_item and stop, the timer    *)
(* task, and the end of a suspended processor_func                         *)

BatchFrame ==
    UNCHANGED <<now, l1_data, l1_expiry, l2_cache, stats, ret, hist, inp, deco, co,
                breaker, retry, l2aux, promo, prio, dep>>

\* BatchProcessor(batch_size, max_wait_time, processor_func) and start()
BP_start(kind) ==
    /\ ~batch.started
    /\ batch' = [batch EXCEPT !.started = TRUE, !.running = TRUE, !.kind = kind]
    /\ BatchFrame

\* add_item(item), from the moment it holds processing_lock
BP_add_item(i) ==
    LET b1 == [batch EXCEPT !.current_batch = Append(@, i), !.fut[i] = Pending] IN
    /\ batch.running
    /\ batch.lock = "free"
    /\ batch.fut[i] = NoFuture
    /\ batch' = IF Len(b1.current_batch) >= batch_size
                THEN process_current_batch(b1, "add")
                ELSE IF Len(b1.current_batch) = 1
                THEN [b1 EXCEPT !.timer = "sleeping"]
                ELSE b1
    /\ BatchFrame

\* _batch_timeout: max_wait_time has passed and the task holds the lock
BP_timeout ==
    /\ batch.timer = "sleeping"
    /\ batch.lock = "free"
    /\ batch' = IF batch.current_batch = <<>> THEN [batch EXCEPT !.timer = "done"]
                ELSE process_current_batch(batch, "timer")
    /\ BatchFrame

\* the suspended processor_func ends and _process_current_batch goes on
BP_processed ==
    /\ batch.proc # <<>>
    /\ batch' = [batch EXCEPT !.fut = set_futures(@, batch.proc[1].items),
                              !.proc = <<>>,
                              !.lock = IF batch.proc[1].by = "add" THEN "free" ELSE @]
    /\ BatchFrame

\* stop(): it does not take the lock
BP_stop ==
    LET b1 == process_current_batch([batch EXCEPT !.running = FALSE], "stop") IN
    /\ batch.running
    /\ batch' = [b1 EXCEPT !.timer = IF @ = "sleeping" THEN "done" ELSE @]
    /\ BatchFrame

NextBatch ==
    \/ \E kind \in {"sync", "async"} : BP_start(kind)
    \/ \E i \in BatchItems : BP_add_item(i)
    \/ BP_timeout
    \/ BP_processed
    \/ BP_stop

SpecBatch == Init /\ [][NextBatch]_vars

----------------------------------------------------------------------------
(* An L2Cache on its own with its cleanup task.  l2aux.task is the task     *)
(* ("sleeping" in asyncio.sleep(60) until l2aux.wake, "none" after close);  *)
(* l2aux.touch[k] is the number of the call that last set k or got k with a *)
(* hit (0: never), kept apart from the OrderedDict.                          *)

L2Frame ==
    UNCHANGED <<l1_data, l1_expiry, stats, ret, hist, inp, deco, co, breaker, retry,
                batch, promo, prio, dep>>

L2Called(op, key, hit, touched) ==
    [l2aux EXCEPT !.ops = @ + 1,
                  !.last = [op |-> op, key |-> key, hit |-> hit],
                  !.touch = IF touched THEN [@ EXCEPT ![key] = l2aux.ops + 1] ELSE @]

S_set(k, ttl) ==
    /\ l2aux.ops < MaxL2Ops
    /\ l2_cache' = L2Cache_set(l2_cache, k, Str("old"), ttl, now).c
    /\ l2aux' = L2Called("set", k, k \in SeqKeys(l2_cache), TRUE)
    /\ UNCHANGED now
    /\ L2Frame

S_get(k) ==
    LET g == L2Cache_get(l2_cache, k, now) IN
    /\ l2aux.ops < MaxL2Ops
    /\ l2_cache' = g.c
    /\ l2aux' = L2Called("get", k, g.res # None, g.res # None)
    /\ UNCHANGED now
    /\ L2Frame

S_exists(k) ==
    LET e == L2Cache_exists(l2_cache, k, now) IN
    /\ l2aux.ops < MaxL2Ops
    /\ l2_cache' = e.c
    /\ l2aux' = L2Called("exists", k, e.res, FALSE)
    /\ UNCHANGED now
    /\ L2Frame

S_delete(k) ==
    LET d == L2Cache_delete(l2_cache, k) IN
    /\ l2aux.ops < MaxL2Ops
    /\ l2_cache' = d.c
    /\ l2aux' = L2Called("delete", k, d.res, FALSE)
    /\ UNCHANGED now
    /\ L2Frame

\* time passes; a sleeping cleanup task wakes when its sleep is over
S_tick(d) ==
    /\ now + d <= MaxL2Time
    /\ l2aux.task = "sleeping" => now + d <= l2aux.wake
    /\ now' = now + d
    /\ l2aux' = [l2aux EXCEPT !.last = [op |-> "tick", key |-> <<>>, hit |-> FALSE]]
    /\ UNCHANGED l2_cache
    /\ L2Frame

\* the cleanup task wakes, makes one pass and sleeps again
S_cleanup ==
    /\ l2aux.task = "sleeping"
    /\ now >= l2aux.wake
    /\ l2_cache' = cleanup_expired_items(l2_cache, now)
    /\ l2aux' = [l2aux EXCEPT !.wake = now + cleanup_interval,
                              !.last = [op |-> "cleanup", key |-> <<>>, hit |-> FALSE]]
    /\ UNCHANGED now
    /\ L2Frame

S_close ==
    LET c == L2Cache_close(l2_cache, l2aux.task) IN
    /\ l2aux.ops < MaxL2Ops
    /\ l2_cache' = c.c
    /\ l2aux' = [L2Called("close", <<>>, FALSE, FALSE) EXCEPT !.task = c.task]
    /\ UNCHANGED now
    /\ L2Frame

NextL2 ==
    \/ \E k \in Keys, ttl \in {{}, {30}} : S_set(k, ttl)
    \/ \E k \in Keys : S_get(k)
    \/ \E k \in Keys : S_exists(k)
    \/ \E k \in Keys : S_delete(k)
    \/ \E d \in {30, 60} : S_tick(d)
    \/ S_cleanup
    \/ S_close

SpecL2 == Init /\ [][NextL2]_vars

\* time goes on and the cleanup task is scheduled when its sleep is over
SpecL2Fair ==
    SpecL2 /\ WF_vars(\E d \in {30, 60} : S_tick(d)) /\ WF_vars(S_cleanup)

----------------------------------------------------------------------------
(* get, set, delete and invalidate of one HierarchicalCache on a Redis-     *)
(* backed L1: set and delete are suspended in their await of the L1 call,   *)
(* after the L1 write has been made and before L2Cache is written, and      *)
(* other calls and the clock run in between.                                *)
(*   promo.set, promo.del : the set / delete that is suspended (at most one *)
(*                          of each)                                        *)
(*   promo.stored[k] : value, ttl and completion time of the last set of k, *)
(*                     once it has completed with success                   *)
(*   promo.gone[k]   : a delete or invalidate of k has completed and no set *)
(*                     of k has run since                                   *)

PromoFrame ==
    UNCHANGED <<ret, hist, inp, deco, co, breaker, retry, batch, l2aux, prio, dep>>

PromoLast(op, key, val, promoted) ==
    [op |-> op, key |-> key, val |-> val, promoted |-> promoted]

P_set(k, v, ttl) ==
    LET s == HierarchicalCache_set_first(Store, k, v, ttl, now) IN
    /\ promo.calls < MaxPromoCalls
    /\ promo.set = <<>>
    /\ Commit(s.h)
    /\ promo' = [promo EXCEPT !.calls = @ + 1,
                              !.set = <<[key |-> k, value |-> v, ttl |-> ttl,
                                         success |-> s.success]>>,
                              !.gone[k] = FALSE,
                              !.stored[k] = {},
                              !.last = PromoLast("set_first", k, v, FALSE)]
    /\ UNCHANGED now
    /\ PromoFrame

P_set_second ==
    LET p == promo.set[1]
        s == HierarchicalCache_set_second(Store, p.key, p.value, p.ttl, now, p.success)
    IN
    /\ promo.set # <<>>
    /\ Commit(s.h)
    /\ promo' = [promo EXCEPT !.set = <<>>,
                              !.gone[p.key] = FALSE,
                              !.stored[p.key] =
                                  IF s.res THEN {[v |-> p.value, ttl |-> p.ttl, at |-> now]}
                                  ELSE @,
                              !.last = PromoLast("set", p.key, p.value, FALSE)]
    /\ UNCHANGED now
    /\ PromoFrame

P_get(k) ==
    LET g == HierarchicalCache_get(Store, k, now) IN
    /\ promo.calls < MaxPromoCalls
    /\ Commit(g.h)
    /\ promo' = [promo EXCEPT !.calls = @ + 1,
                              !.last = PromoLast("get", k, g.res,
                                                 L1Peek(k) = None /\ g.res # None)]
    /\ UNCHANGED now
    /\ PromoFrame

P_delete(k, invalidate) ==
    LET d == HierarchicalCache_delete_first(Store, k) IN
    /\ promo.calls < MaxPromoCalls
    /\ promo.del = <<>>
    /\ Commit(d.h)
    /\ promo' = [promo EXCEPT !.calls = @ + 1,
                              !.del = <<[key |-> k, success |-> d.success,
                                         invalidate |-> invalidate]>>,
                              !.last = PromoLast("delete_first", k, None, FALSE)]
    /\ UNCHANGED now
    /\ PromoFrame

P_delete_second ==
    LET p == promo.del[1]
        d == HierarchicalCache_delete_second(Store, p.key, p.success, p.invalidate)
    IN
    /\ promo.del # <<>>
    /\ Commit(d.h)
    /\ promo' = [promo EXCEPT !.del = <<>>,
                              !.gone[p.key] = (promo.set = <<>> \/ promo.set[1].key # p.key),
                              !.stored[p.key] = {},
                              !.last = PromoLast("delete", p.key, None, FALSE)]
    /\ UNCHANGED now
    /\ PromoFrame

P_tick(d) ==
    /\ now + d <= MaxPromoTime
    /\ now' = now + d
    /\ promo' = [promo EXCEPT !.last = PromoLast("tick", <<>>, None, FALSE)]
    /\ UNCHANGED <<l1_data, l1_expiry, l2_cache, stats>>
    /\ PromoFrame

\* the key the interleaved calls are made on
PromoKeys == {<<"a", "1">>}

NextPromo ==
    \/ \E k \in PromoKeys, v \in CoValues, ttl \in TTLs : P_set(k, v, ttl)
    \/ P_set_second
    \/ \E k \in PromoKeys : P_get(k)
    \/ \E k \in PromoKeys, invalidate \in BOOLEAN : P_delete(k, invalidate)
    \/ P_delete_second
    \/ \E d \in TickSteps : P_tick(d)

SpecPromo == Init /\ [][NextPromo]_vars

----------------------------------------------------------------------------
(* A PriorityTaskScheduler: the callers of schedule_task and wait_all, the  *)
(* scheduler loop and the tasks it starts, one step per stretch between two *)
(* suspensions (the lock is never held across a suspension, so taking it    *)
(* suspends nobody)                                                         *)

PrioFrame ==
    UNCHANGED <<now, l1_data, l1_expiry, l2_cache, stats, ret, hist, inp, deco, co,
                breaker, retry, batch, l2aux, promo, dep>>

\* schedule_task(coro, priority)
PS_schedule_task(priority) ==
    LET n == Len(prio.prios) + 1
        item == [priority |-> priority, n |-> n,
                 task_id |-> task_id(prio.task_queue, prio.clock)]
        start == ~prio.running /\ prio.scheduler_task = "none"
    IN
    /\ n <= MaxTasks
    /\ prio' = [prio EXCEPT !.task_queue = Append(@, item),
                            !.fut[n] = "pending",
                            !.prios = Append(@, priority),
                            !.early = IF prio.wait = "idle" THEN @ \cup {n} ELSE @,
                            !.running = IF start THEN TRUE ELSE @,
                            !.scheduler_task = IF start THEN "alive" ELSE @]
    /\ PrioFrame

\* one turn of the while loop of _scheduler_loop, or its end
PS_scheduler_loop ==
    /\ prio.scheduler_task = "alive"
    /\ IF ~(prio.running \/ prio.task_queue # <<>> \/ prio.running_tasks # {})
       THEN prio' = [prio EXCEPT !.scheduler_task = "finished"]
       ELSE IF prio.task_queue # <<>> /\ prio.active_tasks < max_concurrent
       THEN \E i \in heappop(prio.task_queue) :
               LET item == prio.task_queue[i] IN
               prio' = [prio EXCEPT
                          !.task_queue = SubSeq(@, 1, i - 1) \o SubSeq(@, i + 1, Len(@)),
                          !.active_tasks = @ + 1,
                          !.running_tasks = @ \cup {item.task_id},
                          !.exec = @ \cup {item},
                          !.started = Append(@, item.n)]
       ELSE UNCHANGED prio
    /\ PrioFrame

\* _execute_task from the end of task_item.coro() on
PS_execute_task(n) ==
    \E item \in prio.exec :
    /\ item.n = n
    /\ prio' = [prio EXCEPT !.fut[item.n] = "done",
                            !.active_tasks = @ - 1,
                            !.running_tasks = @ \ {item.task_id},
                            !.completed_tasks = @ \cup {item.task_id},
                            !.exec = @ \ {item}]
    /\ PrioFrame

\* wait_all(): a turn of its while loop and, once that is over, the steps up
\* to `await self._scheduler_task`, which suspends unless the task has ended
PS_wait_all ==
    /\ prio.wait \in {"idle", "polling"}
    /\ prio' = IF prio.task_queue # <<>> \/ prio.running_tasks # {}
               THEN [prio EXCEPT !.wait = "polling"]
               ELSE IF prio.scheduler_task = "alive"
               THEN [prio EXCEPT !.running = FALSE, !.wait = "joining"]
               ELSE [prio EXCEPT !.running = FALSE, !.scheduler_task = "none",
                                 !.wait = "returned"]
    /\ PrioFrame

\* wait_all() after the scheduler task has ended
PS_wait_all_joined ==
    /\ prio.wait = "joining"
    /\ prio.scheduler_task = "finished"
    /\ prio' = [prio EXCEPT !.scheduler_task = "none", !.wait = "returned"]
    /\ PrioFrame

\* time.time() moves on
PS_tick ==
    /\ prio.clock < MaxPrioClock
    /\ prio' = [prio EXCEPT !.clock = @ + 1]
    /\ PrioFrame

NextPrio ==
    \/ \E priority \in {1, 2} : PS_schedule_task(priority)
    \/ PS_scheduler_loop
    \/ \E n \in 1..MaxTasks : PS_execute_task(n)
    \/ PS_wait_all
    \/ PS_wait_all_joined
    \/ PS_tick

SpecPrio == Init /\ [][NextPrio]_vars

\* the event loop runs every task that is ready: the scheduler loop, the
\* started tasks and the caller of wait_all; nobody has to call schedule_task
SpecPrioFair ==
    SpecPrio /\ WF_vars(PS_scheduler_loop) /\ WF_vars(\E n \in 1..MaxTasks : PS_execute_task(n))
             /\ WF_vars(PS_wait_all) /\ WF_vars(PS_wait_all_joined)

----------------------------------------------------------------------------
(* A DependencyScheduler: the callers of add_task, start and wait_all, the  *)
(* scheduler loops and the _execute_task coroutines they create.  The event *)
(* loop runs the queued steps first in, first out; a timer that has run out *)
(* queues the step of its sleeper; callers may act between any two steps.   *)

DepFrame ==
    UNCHANGED <<now, l1_data, l1_expiry, l2_cache, stats, ret, hist, inp, deco, co,
                breaker, retry, batch, l2aux, promo, prio>>

\* add_task(name, coro, depends_on)
DS_add_task(depends_on) ==
    /\ Len(dep.tasks) < MaxDepTasks
    /\ depends_on \subseteq 1..Len(dep.tasks)
    /\ dep' = [dep EXCEPT !.tasks = Append(@, [depends_on |-> depends_on,
                                                status |-> "pending"])]
    /\ DepFrame

\* start()
DS_start ==
    /\ dep.running \/ Len(dep.loops) < MaxLoops
    /\ dep' = IF dep.running THEN dep
              ELSE [dep EXCEPT !.running = TRUE,
                               !.loops = Append(@, "ready"),
                               !.scheduler_task = Len(dep.loops) + 1,
                               !.ready = Append(@, [kind |-> "loop",
                                                    i |-> Len(dep.loops) + 1])]
    /\ DepFrame

\* wait_all(): a turn of its while loop and, once that is over, the steps up
\* to `await self.scheduler_task`, which suspends unless the task has ended
DS_wait_all ==
    /\ dep.wait \in {"idle", "polling", "returned"}
    /\ dep' = IF \E n \in 1..Len(dep.tasks) : dep.tasks[n].status \notin Terminal
              THEN [dep EXCEPT !.wait = "polling"]
              ELSE IF dep.scheduler_task # 0 /\ dep.loops[dep.scheduler_task] # "finished"
              THEN [dep EXCEPT !.running = FALSE, !.wait = "joining",
                               !.joined = dep.scheduler_task]
              ELSE [dep EXCEPT !.running = FALSE, !.wait = "returned"]
    /\ DepFrame

\* wait_all() after the scheduler task it awaits has ended
DS_wait_all_joined ==
    /\ dep.wait = "joining"
    /\ dep.loops[dep.joined] = "finished"
    /\ dep' = [dep EXCEPT !.wait = "returned"]
    /\ DepFrame

\* the asyncio.sleep(0.01) of scheduler loop i runs out
DS_timer(i) ==
    /\ i <= Len(dep.loops)
    /\ dep.loops[i] = "sleeping"
    /\ dep' = [dep EXCEPT !.loops[i] = "woken",
                          !.ready = Append(@, [kind |-> "loop", i |-> i])]
    /\ DepFrame

\* one turn of the while loop of _scheduler_loop, or its end
DS_scheduler_loop ==
    /\ dep.ready # <<>>
    /\ Head(dep.ready).kind = "loop"
    /\ LET i == Head(dep.ready).i
           rt == ready_tasks(dep.tasks, dep.completed_tasks)
       IN dep' = IF dep.running
                 THEN [dep EXCEPT !.loops[i] = "sleeping",
                                  !.ready = Tail(@) \o
                                      [j \in 1..Len(rt) |-> [kind |-> "exec", i |-> rt[j]]]]
                 ELSE [dep EXCEPT !.loops[i] = "finished", !.ready = Tail(@)]
    /\ DepFrame

\* _execute_task up to `await task.coro()`
DS_execute_task ==
    /\ dep.ready # <<>>
    /\ Head(dep.ready).kind = "exec"
    /\ LET n == Head(dep.ready).i IN
       dep' = [dep EXCEPT !.tasks[n].status = "running",
                          !.inflight[n] = @ + 1,
                          !.ready = Tail(@),
                          !.starts[n] = @ + 1,
                          !.early = IF dep.tasks[n].depends_on \subseteq dep.completed_tasks
                                    THEN @ ELSE @ \cup {n}]
    /\ DepFrame

\* _execute_task from the end of task.coro() on: the coroutine returned (ok)
\* or raised
DS_execute_task_end(n, ok) ==
    /\ dep.inflight[n] > 0
    /\ dep' = [dep EXCEPT !.tasks[n].status = IF ok THEN "completed" ELSE "failed",
                          !.completed_tasks = IF ok THEN @ \cup {n} ELSE @,
                          !.inflight[n] = @ - 1]
    /\ DepFrame

NextDep ==
    \/ \E depends_on \in SUBSET (1..MaxDepTasks) : DS_add_task(depends_on)
    \/ DS_start
    \/ DS_wait_all
    \/ DS_wait_all_joined
    \/ \E i \in 1..MaxLoops : DS_timer(i)
    \/ DS_scheduler_loop
    \/ DS_execute_task
    \/ \E n \in 1..MaxDepTasks, ok \in BOOLEAN : DS_execute_task_end(n, ok)

SpecDep == Init /\ [][NextDep]_vars

----------------------------------------------------------------------------
(* The claims *)

\* this step is the call op on key
Step(op, key) == hist'.ops = hist.ops + 1 /\ ret'.op = op /\ ret'.key = key

\* what HierarchicalCache.get would return now
HPeek(k) == HierarchicalCache_get(Store, k, now).res

AsSet(sq) == {sq[i] : i \in DOMAIN sq}

C3_LRUEviction ==
    LET run == hist.setRun IN
    (Len(run) = max_size + 1 /\ Cardinality({run[i][1] : i \in DOMAIN run}) = Len(run))
    => /\ run[1][1] \notin SeqKeys(l2_cache)
       /\ L2Peek(run[1][1]) = None
       /\ \A i \in 2..Len(run) :
            /\ run[i][1] \in SeqKeys(l2_cache)
            /\ ~L2Expired(l2_cache, run[i][1], now) => L2Peek(run[i][1]) = run[i][2]

C3_Witness ==
    LET run == hist.setRun IN
    /\ Len(run) = max_size + 1
    /\ Cardinality({run[i][1] : i \in DOMAIN run}) = Len(run)
    /\ \A i \in 2..Len(run) : run[i][2] # None /\ L2Peek(run[i][1]) = run[i][2]

C5_PatternScoping ==
    [][\A p \in Patterns : Step("H.invalidate_pattern", p) =>
        \A k \in Keys :
            IF fnmatch(k, p)
            THEN /\ k \notin DOMAIN l1_data'
                 /\ k \notin SeqKeys(l2_cache')
                 /\ HPeek(k)' = None
            ELSE /\ L1Entry(Store.r, k)' = L1Entry(Store.r, k)
                 /\ L2Entry(l2_cache, k)' = L2Entry(l2_cache, k)
                 /\ HPeek(k)' = HPeek(k)]_vars

\* C6: delete(key) of a key that is not stored (in the tier; in either tier for
\* HierarchicalCache.delete) returns False, changes no stored entry and no
\* counter, and returns False again when repeated.
C6_IdempotentDelete ==
    [][\A k \in Keys :
        /\ (Step("L1.delete", k) /\ k \notin DOMAIN l1_data)
           => /\ ret'.ok = FALSE
              /\ UNCHANGED <<l1_data, l1_expiry, l2_cache, stats>>
              /\ L1Cache_delete(Store.r, k).res' = FALSE
        /\ (Step("L2.delete", k) /\ k \notin SeqKeys(l2_cache))
           => /\ ret'.ok = FALSE
              /\ UNCHANGED <<l1_data, l1_expiry, l2_cache, stats>>
              /\ L2Cache_delete(l2_cache, k).res' = FALSE
        /\ (Step("H.delete", k) /\ k \notin DOMAIN l1_data /\ k \notin SeqKeys(l2_cache))
           => /\ ret'.ok = FALSE
              /\ UNCHANGED <<l1_data, l1_expiry, l2_cache, stats>>
              /\ HierarchicalCache_delete(Store, k).res' = FALSE
      ]_vars

\* after two calls: a set that stored one key in both tiers, then a delete of
\* another key
C6_Witness ==
    /\ hist.ops = 2 /\ ret.op = "H.delete" /\ ~ret.ok
    /\ Cardinality(DOMAIN l1_data) = 1 /\ Len(l2_cache) = 1
    /\ stats["sets"] = 1

\* C7: after n HierarchicalCache.get calls of which h returned a value, the
\* reported total_hit_rate is h/n (as a percentage).
C7_HitRate ==
    LET rate == HierarchicalCache_get_performance_stats(stats).total_hit_rate IN
    hist.getCalls > 0 =>
        rate.num * hist.getCalls = 100 * hist.getHits * rate.den

C9_KeyDeterminism ==
    inp.call = "generate_generic_key" =>
        \A p \in inp.prev :
            (p.tool = inp.tool /\ AsSet(p.kwargs) = AsSet(inp.kwargs))
            => p.key = inp.key

C9_Witness ==
    /\ inp.call = "generate_generic_key"
    /\ \E p \in inp.prev :
         /\ p.tool = inp.tool /\ AsSet(p.kwargs) = AsSet(inp.kwargs)
         /\ p.kwargs # inp.kwargs /\ p.key = inp.key

C11_LookupStateMachine ==
    [][\A k \in Keys : Step("H.get", k) =>
        LET v1 == L1Peek(k)
            v2 == L2Peek(k)
        IN  /\ v1 # None =>
                 /\ stats' = Bump(stats, "l1_hits")
                 /\ ret'.val = v1
                 /\ l2_cache' = l2_cache
            /\ (v1 = None /\ v2 # None) =>
                 /\ stats' = Bump(Bump(stats, "l1_misses"), "l2_hits")
                 /\ ret'.val = v2
            /\ (v1 = None /\ v2 = None) =>
                 /\ stats' = Bump(Bump(stats, "l1_misses"), "l2_misses")
                 /\ ret'.val = None]_vars

\* an L1 hit on a key that L2Cache holds too, its item never accessed
C11_Witness ==
    /\ ret.op = "H.get" /\ ret.val # None
    /\ stats["l1_hits"] = 1 /\ stats["l1_misses"] = 0
    /\ stats["l2_hits"] = 0 /\ stats["l2_misses"] = 0
    /\ ret.key \in SeqKeys(l2_cache)
    /\ l2_cache[IndexOf(l2_cache, ret.key)].access_count = 0

StoredValue(h, key, t) ==
    IF key \in DOMAIN h.r.data /\ ~L1Expired(h.r, key, t)
    THEN json_loads(h.r.data[key])
    ELSE h.c[IndexOf(h.c, key)].value

\* C13: a call of the wrapped function through cache_result when no tier holds
\* a live entry for its key invokes the function once, returns its result and
\* caches it; a call made while a tier holds a live entry for the key invokes
\* nothing and returns the cached result.
C13_MemoizationHit ==
    [][(ret'.op = "D.call" /\ hist'.ops = hist.ops + 1
        /\ ret'.x.fault = "none" /\ \A i \in DOMAIN ret'.x.outs : ret'.x.outs[i] # Raise)
       => LET key == ret'.key IN
          IF Live(Store, key, now)
          THEN /\ ret'.n = 0
               /\ deco'.invocations = deco.invocations
               /\ ret'.val = StoredValue(Store, key, now)
          ELSE /\ ret'.n = 1
               /\ deco'.invocations = deco.invocations + 1
               /\ ret'.val = ret'.x.outs[1]
               /\ condition(deco.condition, ret'.val) =>
                    /\ L1Cache_get([data |-> l1_data', expiry |-> l1_expiry'],
                                   key, now').res = ret'.val
                    /\ L2Cache_get(l2_cache', key, now').res = ret'.val]_vars

\* C14: with a condition supplied, a call that invokes the function and gets a
\* result for which the condition is false returns the result, writes no entry
\* and leaves the key a miss, so the next call invokes the function again;
\* when the condition is true the result is written to both tiers.
C14_ConditionalCaching ==
    [][(ret'.op = "D.call" /\ hist'.ops = hist.ops + 1 /\ deco.condition = "not_skip"
        /\ ret'.x.fault = "none" /\ ret'.x.outs # <<>>
        /\ \A i \in DOMAIN ret'.x.outs : ret'.x.outs[i] # Raise)
       => LET key == ret'.key
              result == ret'.x.outs[1]
              after == [r |-> [data |-> l1_data', expiry |-> l1_expiry'],
                        c |-> l2_cache', stats |-> stats']
          IN  /\ ret'.val = result
              /\ IF result = Str("skip")
                 THEN /\ stats'["sets"] = stats["sets"]
                      /\ \A k \in DOMAIN l1_data' :
                           k \in DOMAIN l1_data /\ L1Entry(after.r, k) = L1Entry(Store.r, k)
                      /\ \A k \in SeqKeys(l2_cache') :
                           L2Entry(after.c, k) = L2Entry(l2_cache, k)
                      /\ HierarchicalCache_get(after, key, now').res = None
                 ELSE /\ stats'["sets"] = stats["sets"] + 1
                      /\ L1Cache_get(after.r, key, now').res = result
                      /\ L2Cache_get(after.c, key, now').res = result]_vars

\* two calls f(a) that both returned "skip": both invoked the function
C14_Witness ==
    /\ hist.ops = 2 /\ ret.op = "D.call" /\ deco.condition = "not_skip"
    /\ ret.val = Str("skip") /\ ret.n = 1 /\ deco.invocations = 2
    /\ l1_data = <<>> /\ l2_cache = <<>>

\* C15: when building the key, cache.get or cache.set raises during a call of
\* the wrapped function, the call returns the result of the invocation that
\* succeeded, and it fails only if the wrapped function itself raised.
C15_BestEffortCaching ==
    [][(ret'.op = "D.call" /\ hist'.ops = hist.ops + 1 /\ ret'.x.fault # "none")
       => LET outs == ret'.x.outs IN
          /\ \A i \in DOMAIN outs : outs[i] # Raise => (ret'.ok /\ ret'.val = outs[i])
          /\ ~ret'.ok => (outs # <<>> /\ outs[Len(outs)] = Raise)
          /\ ret'.x.fault \in {"bind", "get", "set"} => Len(outs) = 1]_vars

\* cache.set raised after the function returned "result": the call returns it
\* and nothing was stored
C15_Witness ==
    /\ ret.op = "D.call" /\ ret.x.fault = "set" /\ ret.ok
    /\ ret.val = Str("result") /\ ret.x.outs = <<Str("result")>>
    /\ l1_data = <<>> /\ l2_cache = <<>>

\* C16: when the wrapper has cached a result for f(a), invalidate_cache("f")
\* with the same argument removes that entry from both tiers, so the next call
\* f(a) misses and invokes the function again.
C16_DecoratorInvalidation ==
    [][(ret'.op = "D.invalidate_cache" /\ hist'.ops = hist.ops + 1)
       => LET key == generate_cache_key(func_name, bind("positional", ret'.x.a),
                                        deco.key_prefix, "none")
              after == [r |-> [data |-> l1_data', expiry |-> l1_expiry'],
                        c |-> l2_cache', stats |-> stats']
          IN  Live(Store, key, now) =>
                /\ key \notin DOMAIN l1_data'
                /\ key \notin SeqKeys(l2_cache')
                /\ HierarchicalCache_get(after, key, now').res = None]_vars

\* C17: whichever tiers fail during the call, HierarchicalCache.get raises
\* nothing and returns None or the value a tier that did not fail holds, and
\* HierarchicalCache.exists raises nothing and returns False or what a tier
\* that did not fail answers.
C17_ReadPathsNeverFail ==
    [][\A k \in Keys :
        /\ Step("F.get", k) =>
             LET f == ret'.x.f IN
             /\ ~ret'.x.raised
             /\ \/ ret'.val = None
                \/ f.L1 = "ok" /\ ret'.val = L1Peek(k)
                \/ /\ f.L1 = "store" \/ (f.L1 = "ok" /\ L1Peek(k) = None)
                   /\ f.L2 = "ok" /\ ret'.val = L2Peek(k)
             /\ (f.L1 = "store" /\ f.L2 = "ok") => ret'.val = L2Peek(k)
        /\ Step("F.exists", k) =>
             LET f == ret'.x.f IN
             /\ ~ret'.x.raised
             /\ ret'.ok \in BOOLEAN
             /\ ret'.ok => \/ f.L1 = "ok" /\ L1Cache_exists(Store.r, k)
                           \/ f.L1 # "tier" /\ f.L2 = "ok"
                              /\ L2Cache_exists(l2_cache, k, now).res
             /\ (f.L1 = "store" /\ f.L2 = "ok") =>
                    ret'.ok = L2Cache_exists(l2_cache, k, now).res]_vars

\* the store of L1 fails during a get: the value comes from L2Cache and the
\* promotion into L1 is given up
C17_Witness ==
    /\ ret.op = "F.get" /\ ret.x.f = [L1 |-> "store", L2 |-> "ok"]
    /\ ret.val # None /\ ~ret.x.raised
    /\ stats["l1_misses"] = 1 /\ stats["l2_hits"] = 1
    /\ ret.key \notin DOMAIN l1_data

\* C18 as claimed: for every HierarchicalCache.set call, a call with ttl
\* omitted or zero included, the ttl handed to L1Cache.set equals the ttl
\* handed to L2Cache.set.
C18_SameTTL_AsClaimed ==
    [][\A k \in Keys :
        Step("F.set", k) => ret'.x.l1_ttl = ret'.x.l2_ttl]_vars

\* C18, amended: a set with a nonzero ttl hands that ttl to both tiers and a
\* set with ttl omitted or zero hands cache_l1_ttl_seconds to L1Cache.set and
\* cache_l2_ttl_seconds to L2Cache.set; the entry a tier stores expires that
\* long after the call.
C18_SameTTL ==
    [][\A k \in Keys :
        Step("F.set", k) =>
          LET x == ret'.x IN
          /\ IF x.ttl \in {{}, {0}}
             THEN x.l1_ttl = cache_l1_ttl_seconds /\ x.l2_ttl = cache_l2_ttl_seconds
             ELSE {x.l1_ttl} = x.ttl /\ {x.l2_ttl} = x.ttl
          /\ x.l1 => l1_expiry'[k] = now + x.l1_ttl
          /\ x.l2 => l2_cache'[IndexOf(l2_cache', k)].expires_at = {now + x.l2_ttl}]_vars

\* a set with a zero ttl written to both tiers with the two default ttls
C18_Witness ==
    /\ ret.op = "F.set" /\ ret.x.ttl = {0} /\ ret.x.l1 /\ ret.x.l2
    /\ l1_expiry[ret.key] = now + cache_l1_ttl_seconds
    /\ l2_cache[IndexOf(l2_cache, ret.key)].expires_at = {now + cache_l2_ttl_seconds}

\* C19 as claimed: HierarchicalCache.set increments sets by one exactly when
\* the write of at least one tier succeeded, a partial failure included, and
\* leaves it unchanged when the writes of both tiers failed.
C19_SetCount_AsClaimed ==
    [][\A k \in Keys :
        Step("F.set", k) =>
          stats'["sets"] = stats["sets"] + (IF ret'.x.l1 \/ ret'.x.l2 THEN 1 ELSE 0)]_vars

\* C19, amended: HierarchicalCache.set increments sets by one exactly when the
\* writes of both tiers succeeded, which is also when it returns True; after a
\* partial failure it returns False and leaves sets unchanged while the tier
\* that was written keeps the entry. No other counter changes.
C19_SetCount ==
    [][\A k \in Keys :
        Step("F.set", k) =>
          LET x == ret'.x IN
          /\ ~x.raised
          /\ ret'.ok = (x.l1 /\ x.l2)
          /\ stats'["sets"] = stats["sets"] + (IF x.l1 /\ x.l2 THEN 1 ELSE 0)
          /\ \A c \in DOMAIN stats : c # "sets" => stats'[c] = stats[c]
          /\ x.l1 => k \in DOMAIN l1_data'
          /\ x.l2 => k \in SeqKeys(l2_cache')]_vars

\* a partial failure: the write of L1Cache failed, L2Cache holds the entry,
\* set returned False and sets was not incremented
C19_Witness ==
    /\ ret.op = "F.set" /\ ~ret.x.l1 /\ ret.x.l2 /\ ~ret.ok
    /\ stats["sets"] = 0
    /\ ret.key \in SeqKeys(l2_cache) /\ ret.key \notin DOMAIN l1_data

\* C20: HierarchicalCache.invalidate(key) leaves the tiers as delete(key)
\* would, and when it succeeds it increments invalidations by one and leaves
\* deletes unchanged; a delete(key) that succeeds increments deletes by one
\* and leaves invalidations unchanged.
C20_InvalidateCounter ==
    [][\A k \in Keys :
        /\ Step("H.invalidate", k) =>
             LET d == HierarchicalCache_delete(Store, k) IN
             /\ l1_data' = d.h.r.data /\ l1_expiry' = d.h.r.expiry
             /\ l2_cache' = d.h.c
             /\ ret'.ok = d.res
             /\ ret'.ok => /\ stats'["invalidations"] = stats["invalidations"] + 1
                           /\ stats'["deletes"] = stats["deletes"]
        /\ (Step("H.delete", k) /\ ret'.ok) =>
             /\ stats'["deletes"] = stats["deletes"] + 1
             /\ stats'["invalidations"] = stats["invalidations"]]_vars

\* C21: HierarchicalCache.invalidate_pattern(p) returns the number of L1 keys
\* matching p, all of which it removes, plus the number of entries it removes
\* from L2Cache, so a key held by both tiers counts twice; invalidations grows
\* by the returned total and no other counter changes.
C21_PatternCount ==
    [][\A p \in Patterns : Step("H.invalidate_pattern", p) =>
        LET m1 == {k \in DOMAIN l1_data : fnmatch(k, p)}
            n1 == Cardinality(DOMAIN l1_data \ DOMAIN l1_data')
            n2 == Len(l2_cache) - Len(l2_cache')
        IN  /\ DOMAIN l1_data \ DOMAIN l1_data' = m1
            /\ SeqKeys(l2_cache') \subseteq SeqKeys(l2_cache)
            /\ ret'.n = n1 + n2
            /\ stats'["invalidations"] = stats["invalidations"] + ret'.n
            /\ \A c \in DOMAIN stats : c # "invalidations" => stats'[c] = stats[c]]_vars

\* one set, then a pattern invalidation that removes that key from both tiers
\* and returns 2
C21_Witness ==
    /\ ret.op = "H.invalidate_pattern" /\ ret.n = 2
    /\ hist.ops = 2 /\ stats["sets"] = 1 /\ stats["invalidations"] = 2
    /\ l1_data = <<>> /\ l2_cache = <<>>

\* C22: HierarchicalCache.exists(key) returns True exactly when L1 or L2Cache
\* holds an entry for key whose ttl has not elapsed; for a key whose entries
\* have all expired it returns False, removed or not.
C22_ExistsExpiryAware ==
    [][\A k \in Keys : Step("H.exists", k) =>
        ret'.ok = \/ k \in DOMAIN l1_data /\ now <= l1_expiry[k]
                  \/ \E i \in DOMAIN l2_cache :
                        l2_cache[i].key = k /\ ~is_expired(l2_cache[i], now)]_vars

\* C23: on a HierarchicalCache whose write_through setting is False, set
\* writes the value to one tier only, the Fast Tier, and leaves the contents
\* of the other tier unchanged. The claim's Fast Tier is the tier consulted
\* first (L1); read as the in-process tier it is L2Cache, so the formula asks
\* for either reading.
C23_WriteThroughFalse ==
    [][\A k \in Keys :
        (Step("W.set", k) /\ ~ret'.x.write_through) =>
            \/ /\ L1Cache_get([data |-> l1_data', expiry |-> l1_expiry'], k, now').res
                      = ret'.val
               /\ l2_cache' = l2_cache
            \/ /\ L2Cache_get(l2_cache', k, now').res = ret'.val
               /\ l1_data' = l1_data /\ l1_expiry' = l1_expiry]_vars

\* C24: L2Cache.set evicts exactly one entry, the least recently used, when
\* the key is new and the tier holds max_size entries, and evicts nothing when
\* the key is already present or the tier is below capacity; whatever is
\* called (set, get, exists, delete, clear), the tier never holds more than
\* max_size entries.
C24_BoundedCapacity ==
    [][/\ Len(l2_cache') <= max_size
       /\ \A k \in Keys : Step("L2.set", k) =>
            LET evicted == SeqKeys(l2_cache) \ SeqKeys(l2_cache') IN
            /\ k \in SeqKeys(l2_cache')
            /\ IF k \notin SeqKeys(l2_cache) /\ Len(l2_cache) = max_size
               THEN /\ evicted = {l2_cache[1].key}
                    /\ Len(l2_cache') = max_size
               ELSE /\ evicted = {}
                    /\ Len(l2_cache') = Len(l2_cache)
                                        + (IF k \in SeqKeys(l2_cache) THEN 0 ELSE 1)]_vars

\* the third set of a new key on a tier of two entries evicted one entry
C24_Witness ==
    /\ ret.op = "L2.set" /\ hist.ops = 3
    /\ Len(l2_cache) = max_size
    /\ Len(hist.setRun) = 3
    /\ hist.setRun[1][1] \notin SeqKeys(l2_cache)
    /\ hist.setRun[1][1] # hist.setRun[2][1] /\ hist.setRun[2][1] # hist.setRun[3][1]
    /\ hist.setRun[1][1] # hist.setRun[3][1]

C26_LastSetWins ==
    \A p \in Callers, q \in Callers :
        (/\ p # q /\ Overlap(p, q)
         /\ co.task[p].op = "set" /\ co.task[q].op = "set"
         /\ co.task[p].key = co.task[q].key
         /\ co.task[p].pc = "done" /\ co.task[q].pc = "done")
        => LET k == co.task[p].key
               v == co.task[co.done[Len(co.done)]].value
           IN  /\ L1Peek(k) = v
               /\ L2Peek(k) = v
               /\ HierarchicalCache_get(Store, k, now).res = v

\* C27: a failed call that is the failure_threshold-th failed call in a row
\* (or a later one) leaves the CircuitBreaker OPEN; a call made while the
\* breaker is OPEN and recovery_timeout has not elapsed since the last failure
\* is rejected without invoking the function and leaves the breaker OPEN; a
\* successful call leaves the breaker CLOSED with failure_count 0.
C27_CircuitBreaker ==
    [][/\ (breaker'.last = "failure" /\ breaker' # breaker
           /\ breaker'.streak >= failure_threshold)
            => breaker'.cb.state = "OPEN"
       /\ (breaker'.calls = breaker.calls + 1 /\ breaker.cb.state = "OPEN"
           /\ \E l \in breaker.cb.last_failure_time : now - l < recovery_timeout)
            => /\ breaker'.last = "rejected"
               /\ breaker'.invoked = breaker.invoked
               /\ breaker'.pc = breaker.pc
               /\ breaker'.cb = breaker.cb
       /\ (breaker'.last = "success" /\ breaker' # breaker)
            => /\ breaker'.cb.state = "CLOSED"
               /\ breaker'.cb.failure_count = 0]_vars

\* failure_threshold failed calls in a row opened the breaker and the next
\* call was rejected
C27_Witness ==
    /\ breaker.cb.state = "OPEN" /\ breaker.last = "rejected"
    /\ breaker.streak = failure_threshold
    /\ breaker.cb.failure_count = failure_threshold
    /\ breaker.invoked = failure_threshold /\ breaker.calls = failure_threshold + 1

\* C28: a failure recorded in closed opens the CircuitBreakerRetry exactly
\* when it is the failure_threshold-th since the last success; a call made
\* while open is rejected without invoking the operation until recovery_timeout
\* has elapsed since the last failure, and the first call after that is
\* invoked with the breaker half_open; a success recorded in half_open closes
\* the breaker exactly when it is the half_open_requests-th, and a failure
\* recorded in half_open opens it again; the state changes in no other way.
C28_RetryStateMachine ==
    [][LET st  == retry.cb.state
           st_ == retry'.cb.state
           returned == retry' # retry /\ retry'.calls = retry.calls
           called   == retry'.calls = retry.calls + 1
           elapsed(n) == \E l \in retry.cb.last_failure_time : now - l >= n
       IN
       /\ (returned /\ retry'.last = "failure" /\ st = "closed")
            => st_ = (IF retry'.streak >= failure_threshold THEN "open" ELSE "closed")
       /\ (called /\ st = "open" /\ ~elapsed(recovery_timeout))
            => /\ retry'.last = "rejected" /\ st_ = "open"
               /\ retry'.invoked = retry.invoked
       /\ (called /\ st = "open" /\ elapsed(recovery_timeout))
            => /\ retry'.last = "invoked" /\ st_ = "half_open"
               /\ retry'.invoked = retry.invoked + 1
       /\ (returned /\ retry'.last = "success" /\ st = "half_open")
            => st_ = (IF retry'.ho >= half_open_requests THEN "closed" ELSE "half_open")
       /\ (returned /\ retry'.last = "failure" /\ st = "half_open") => st_ = "open"
       /\ st_ # st =>
            \/ st = "closed" /\ st_ = "open" /\ returned /\ retry'.last = "failure"
            \/ st = "open" /\ st_ = "half_open" /\ called
            \/ st = "half_open" /\ st_ = "closed" /\ returned /\ retry'.last = "success"
            \/ st = "half_open" /\ st_ = "open" /\ returned /\ retry'.last = "failure"]_vars

\* the breaker opened, was tried again after recovery_timeout and closed on
\* the half_open_requests-th success
C28_Witness ==
    /\ retry.cb.state = "closed" /\ retry.last = "success"
    /\ retry.ho = half_open_requests
    /\ retry.invoked = failure_threshold + half_open_requests
    /\ \E l \in retry.cb.last_failure_time : now - l >= recovery_timeout

\* C29: when a batch holds an item that makes processor_func fail, the
\* futures of the other items of the batch get their results and only the
\* future of the failing item gets the exception.
C29_BatchErrorIsolation ==
    /\ \A i \in BatchItems : batch.fut[i].st = "exception" => i = ErrorItem
    /\ \A n \in DOMAIN batch.handled :
          (/\ ErrorItem \in SeqItems(batch.handled[n].items)
           /\ batch.fut[ErrorItem].st = "exception")
          => \A i \in SeqItems(batch.handled[n].items) \ {ErrorItem} :
                batch.fut[i] = processor_result(i)

\* C30: a future add_item returned is completed once its batch has been
\* handled: a future that is still pending belongs to an item that waits in
\* current_batch with the timer running, or to a batch whose processor_func
\* has not ended yet; after stop() no item waits any more.
C30_BatchCompletion ==
    \A i \in BatchItems : batch.fut[i].st = "pending" =>
        \/ /\ \E n \in DOMAIN batch.current_batch : batch.current_batch[n] = i
           /\ batch.timer = "sleeping" /\ batch.running
        \/ /\ batch.proc # <<>>
           /\ i \in SeqItems(batch.proc[1].items)

\* the keys of the OrderedDict in its order
KeyOrder(c) == [i \in DOMAIN c |-> c[i].key]

\* C33: strict LRU by access.  After any calls of set/get/exists/delete on
\* L2Cache the OrderedDict lists the stored keys from the one whose last set
\* or successful get is the oldest to the one whose is the newest; a set of a
\* new key that finds the tier full evicts exactly the stored key whose last
\* set or successful get is the oldest; a get hit or a set leaves its key in
\* the most recently used position; exists and a missed get leave the order
\* of the keys that stay as it was.
C33_StrictLRU ==
    [][LET op     == l2aux'.last
           called == l2aux'.ops = l2aux.ops + 1
           oldest == CHOOSE k \in SeqKeys(l2_cache) :
                        \A k2 \in SeqKeys(l2_cache) : l2aux.touch[k] <= l2aux.touch[k2]
       IN
       /\ \A i \in DOMAIN l2_cache', j \in DOMAIN l2_cache' :
             i < j => l2aux'.touch[l2_cache'[i].key] < l2aux'.touch[l2_cache'[j].key]
       /\ (called /\ op.op = "set" /\ ~op.hit /\ Len(l2_cache) >= max_size)
            => SeqKeys(l2_cache) \ SeqKeys(l2_cache') = {oldest}
       /\ (called /\ (op.op = "set" \/ (op.op = "get" /\ op.hit)))
            => l2_cache'[Len(l2_cache')].key = op.key
       /\ (called /\ (op.op = "exists" \/ (op.op = "get" /\ ~op.hit)))
            => KeyOrder(l2_cache')
                 = SelectSeq(KeyOrder(l2_cache), LAMBDA k : k \in SeqKeys(l2_cache'))]_vars

\* a get hit has saved the key set first: the set of a third key has evicted
\* the key set second
C33_Witness ==
    /\ now = 0 /\ l2aux.ops = 4 /\ l2aux.last.op = "set" /\ ~l2aux.last.hit
    /\ Len(l2_cache) = max_size
    /\ \E k \in Keys \ SeqKeys(l2_cache), k1 \in SeqKeys(l2_cache) :
          l2aux.touch[k] = 2 /\ l2aux.touch[k1] = 3

\* C36: entry immutability.  A stored item's expires_at is created_at + ttl;
\* created_at and expires_at of the item stored for a key stay as they are
\* in every step but a set of that key, which stores a fresh item with
\* access_count 0; access_count never decreases, and it and last_accessed
\* change only in a get hit of that key (not in exists, in calls on other
\* keys or in a cleanup pass).
C36_EntryImmutability ==
    [][LET op     == l2aux'.last
           called == l2aux'.ops = l2aux.ops + 1
       IN
       /\ \A i \in DOMAIN l2_cache' :
             \E x \in {30, default_ttl} :
                l2_cache'[i].expires_at = {l2_cache'[i].created_at + x}
       /\ \A k \in SeqKeys(l2_cache) \cap SeqKeys(l2_cache') :
             LET it  == l2_cache[IndexOf(l2_cache, k)]
                 it_ == l2_cache'[IndexOf(l2_cache', k)]
             IN  IF called /\ op.op = "set" /\ op.key = k
                 THEN it_.access_count = 0 /\ it_.created_at = now
                      /\ it_.last_accessed = now
                 ELSE /\ it_.created_at = it.created_at
                      /\ it_.expires_at = it.expires_at
                      /\ it_.value = it.value
                      /\ it_.access_count >= it.access_count
                      /\ (it_.access_count # it.access_count
                             \/ it_.last_accessed # it.last_accessed)
                           => (called /\ op.op = "get" /\ op.hit /\ op.key = k
                               /\ it_.access_count = it.access_count + 1
                               /\ it_.last_accessed = now)]_vars

\* an item created at 0 and read at 60 has gone through a cleanup pass
C36_Witness ==
    /\ l2aux.last.op = "cleanup"
    /\ \E i \in DOMAIN l2_cache :
          /\ l2_cache[i].created_at = 0 /\ l2_cache[i].access_count = 1
          /\ l2_cache[i].last_accessed = 60

\* C35: background sweep.  While the tier is open an entry whose expires_at
\* has passed is eventually gone even if nobody looks its key up; a cleanup
\* pass removes exactly the entries that have expired and leaves the others
\* as they are; close() ends the cleanup task, which makes no pass afterwards.
C35_BackgroundSweep ==
    /\ [][LET op == l2aux'.last IN
          /\ op.op = "cleanup" /\ l2aux' # l2aux
               => /\ l2aux.task = "sleeping"
                  /\ l2_cache' = SelectSeq(l2_cache, LAMBDA it :
                                     it.expires_at = {} \/ \E e \in it.expires_at : now <= e)
          /\ op.op = "close" /\ l2aux'.ops = l2aux.ops + 1 => l2aux'.task = "none"
          /\ l2aux.task = "none" => l2aux'.task = "none"]_vars
    /\ \A k \in Keys :
          (l2aux.task = "sleeping" /\ L2Expired(l2_cache, k, now))
              ~> ~L2Expired(l2_cache, k, now)

\* a cleanup pass has just removed an expired entry and kept a live one
C35_Witness ==
    /\ l2aux.last.op = "cleanup" /\ l2aux.task = "sleeping" /\ now = 60
    /\ Len(l2_cache) = 1
    /\ \E k \in Keys \ SeqKeys(l2_cache) : l2aux.touch[k] > 0
    /\ l2aux.ops = 2 /\ l2aux.last.key = <<>>
    /\ \A k \in Keys : l2aux.touch[k] \in {0, 1, 2}

\* C34: promotion TTL bound.  When HierarchicalCache.get finds the key in
\* L2Cache only and writes it into L1, the TTL of the L1 entry is at most the
\* TTL the L2Cache item was stored with, and the L1 entry does not expire
\* later than that item.
C34_PromotionTTLBound ==
    [][\A k \in PromoKeys :
          (promo'.last.op = "get" /\ promo'.calls = promo.calls + 1
              /\ promo'.last.key = k /\ promo'.last.promoted)
          => LET it == l2_cache[IndexOf(l2_cache, k)] IN
             \A e \in it.expires_at :
                /\ l1_expiry'[k] - now <= e - it.created_at
                /\ l1_expiry'[k] <= e]_vars

\* C37: no stale read past the TTL.  A get never returns the value of the
\* last completed set(key, v, ttl) when more than ttl seconds have passed
\* since that set completed, however the gets and their promotions interleave
\* with the expiry of the two tiers.
C37_NoStaleRead ==
    \A k \in PromoKeys : \A s \in promo.stored[k] : \A ttl \in s.ttl :
        (promo.last.op = "get" /\ promo.last.key = k /\ promo.last.val = s.v)
            => now <= s.at + ttl

\* C38: invalidation is not undone by a promotion in flight.  Once a delete
\* or invalidate of key has completed and no set of key has run since, no
\* tier holds the key and a get of it returns nothing.
C38_InvalidationNotUndone ==
    \A k \in PromoKeys :
        promo.gone[k] =>
            /\ k \notin DOMAIN l1_data
            /\ k \notin SeqKeys(l2_cache)
            /\ (promo.last.op = "get" /\ promo.last.key = k) => promo.last.val = None

\* C39: at most one invocation per call.  A call of the function decorated
\* with cache_result invokes the wrapped function at most once, also when the
\* wrapped function raises.
C39_AtMostOneInvocation ==
    ret.op = "D.call" => Len(ret.x.outs) <= 1

\* C31 as claimed: among the tasks submitted before wait_all, a task with a
\* lower priority never starts before a task with a higher priority.
C31_PriorityOrder_AsClaimed ==
    \A i \in DOMAIN prio.started : \A b \in prio.early :
        (prio.started[i] \in prio.early /\ prio.prios[prio.started[i]] < prio.prios[b])
            => \E j \in 1..(i - 1) : prio.started[j] = b

\* C31: priority order.  PriorityTaskScheduler starts tasks in descending
\* priority whatever the order of submission: when a task starts, no task
\* waiting in the queue has a higher priority.
C31_PriorityOrder ==
    [][prio'.started # prio.started
          => LET n == prio'.started[Len(prio'.started)] IN
             \A i \in DOMAIN prio.task_queue :
                prio.task_queue[i].priority <= prio.prios[n]]_vars

\* the task submitted second, with the higher priority, was started first
C31_Witness ==
    /\ Len(prio.started) >= 2
    /\ prio.started[1] = 2 /\ prio.started[2] = 1
    /\ prio.prios[1] < prio.prios[2]

\* C40: scheduler concurrency bound.  Whatever the interleaving of
\* schedule_task, the scheduler loop, the ends of the tasks and wait_all,
\* active_tasks stays between 0 and max_concurrent and equals the number of
\* ids in running_tasks, and the future of every scheduled task is
\* eventually completed.
C40_SchedulerBound ==
    /\ [](/\ 0 <= prio.active_tasks /\ prio.active_tasks <= max_concurrent
          /\ prio.active_tasks = Cardinality(prio.running_tasks))
    /\ \A n \in 1..MaxTasks : (prio.fut[n] = "pending") ~> (prio.fut[n] = "done")

\* C32 Dependency order: DependencyScheduler starts a task only after every
\* task listed in its depends_on has completed successfully, and starts each
\* task at most once.
C32_DependencyOrder ==
    /\ dep.early = {}
    /\ \A n \in 1..MaxDepTasks : dep.starts[n] <= 1

====
